---- MODULE Spec2Model ----
(***************************************************************************)
(* Conversation reconstruction of cursor-chat-browser: the route handlers  *)
(* that list projects, list a project's conversations, list logs and list  *)
(* workspaces, over a storage root of workspace directories and a global   *)
(* key-value store.                                                        *)
(*                                                                         *)
(* A string is a sequence of one-character strings.  Where the code only   *)
(* tests a string for truthiness, an absent field and the empty string are *)
(* both <<>>.  A timestamp that is absent or 0 (both falsy) is 0.  The      *)
(* backquote character, which a TLA+ string cannot hold, is written "BQ".  *)
(***************************************************************************)
EXTENDS Integers, Sequences, FiniteSets, TLC

VARIABLES
    rootOk,     \* the storage root can be read (fs.readdir succeeds)
    dirs,       \* the entries of the storage root, in readdir order
    globalDb,   \* the global store: [exists, bubbleRows, composerRows, diffRows, contextRows]
    now,        \* Date.now()
    pc,         \* position of the running handler
    req,        \* the request: [handler, id]
    open,       \* storage handles that are open
    loc,        \* the handler's locals
    resp        \* the response: [status, body]

vars == <<rootOk, dirs, globalDb, now, pc, req, open, loc, resp>>

----------------------------------------------------------------------------
(* Bounds of the model *)

MaxTime == 2        \* stored timestamps range over 0..MaxTime
MaxTick == 1        \* Date.now() advances by 0..MaxTick between two phases of a handler

----------------------------------------------------------------------------
(* Strings *)

Min(a, b) == IF a <= b THEN a ELSE b

Whitespace == {" ", "\n", "\t", "\r"}

StartsWith(s, p) == Len(p) <= Len(s) /\ SubSeq(s, 1, Len(p)) = p

RECURSIVE IndexFrom(_, _, _)
\* first index >= i at which p occurs in s, 0 when there is none
IndexFrom(s, p, i) ==
    IF i + Len(p) - 1 > Len(s) THEN 0
    ELSE IF SubSeq(s, i, i + Len(p) - 1) = p THEN i
    ELSE IndexFrom(s, p, i + 1)

\* String.prototype.replace(p, '') with a string pattern: the first occurrence only
RemoveFirst(s, p) ==
    LET i == IndexFrom(s, p, 1)
    IN  IF i = 0 THEN s ELSE SubSeq(s, 1, i - 1) \o SubSeq(s, i + Len(p), Len(s))

\* String.prototype.replace(/^p/, '')
RemoveLeading(s, p) == IF StartsWith(s, p) THEN SubSeq(s, Len(p) + 1, Len(s)) ELSE s

RECURSIVE Split(_, _)
\* String.prototype.split(c) for a one-character separator
Split(s, c) ==
    LET i == IndexFrom(s, <<c>>, 1)
    IN  IF i = 0 THEN <<s>>
        ELSE <<SubSeq(s, 1, i - 1)>> \o Split(SubSeq(s, i + 1, Len(s)), c)

\* Array.prototype.pop() of a non-empty array
Pop(a) == a[Len(a)]

RECURSIVE TrimStart(_)
TrimStart(s) ==
    IF s # <<>> /\ Head(s) \in Whitespace THEN TrimStart(Tail(s)) ELSE s

RECURSIVE TrimEnd(_)
TrimEnd(s) ==
    IF s # <<>> /\ s[Len(s)] \in Whitespace THEN TrimEnd(SubSeq(s, 1, Len(s) - 1)) ELSE s

\* String.prototype.trim()
Trim(s) == TrimEnd(TrimStart(s))

\* String.prototype.substring(0, n) and slice(0, n) for n >= 0
Substring(s, n) == SubSeq(s, 1, Min(n, Len(s)))

RECURSIVE Rep(_, _)
\* String.prototype.repeat
Rep(c, n) == IF n = 0 THEN <<>> ELSE <<c>> \o Rep(c, n - 1)

RECURSIVE Join(_, _)
\* Array.prototype.join(sep)
Join(a, sep) ==
    IF a = <<>> THEN <<>>
    ELSE IF Len(a) = 1 THEN a[1]
    ELSE a[1] \o sep \o Join(Tail(a), sep)

RECURSIVE Concat(_)
Concat(a) == IF a = <<>> THEN <<>> ELSE Head(a) \o Concat(Tail(a))

\* a map (a JS object used as a dictionary) with key k set to v
MapPut(m, k, v) == [x \in DOMAIN m \cup {k} |-> IF x = k THEN v ELSE m[x]]

EmptyMap == [x \in {} |-> 0]

\* m[k] || dflt, for a map whose values are truthy
MapGet(m, k, dflt) == IF k \in DOMAIN m THEN m[k] ELSE dflt

----------------------------------------------------------------------------
(* String literals of the source *)

FileScheme == <<"f", "i", "l", "e", ":", "/", "/">>
HomePrefix == <<"/", "U", "s", "e", "r", "s", "/", "e", "v", "a", "r", "a", "n", "/">>
Ellipsis == <<".", ".", ".">>

ProjectPrefix == <<"P", "r", "o", "j", "e", "c", "t", " ">>
ConversationPrefix == <<"C", "o", "n", "v", "e", "r", "s", "a", "t", "i", "o", "n", " ">>

\* null as a project id: like the empty string it is falsy, and no directory is named ""
NoProject == <<>>

----------------------------------------------------------------------------
(* Project attribution: part_002 lines 25-144, repeated in part_003 lines 232-350 *)

\* the first project id of a sequence of lookups that is not null
RECURSIVE FirstFound(_)
FirstFound(ids) ==
    IF ids = <<>> THEN NoProject
    ELSE IF Head(ids) # NoProject THEN Head(ids)
    ELSE FirstFound(Tail(ids))

\* filePath.replace(/^\/Users\/evaran\//, '')
normalizedFilePath(filePath) == RemoveLeading(filePath, HomePrefix)

\* workspaceData.folder.replace('file://', '').replace(/^\/Users\/evaran\//, '')
normalizedWorkspacePath(folder) == RemoveLeading(RemoveFirst(folder, FileScheme), HomePrefix)

\* an entry whose workspace.json parses, has a folder, and whose folder is a prefix
EntryMatches(entry, normalizedPath) ==
    /\ entry.jsonOk
    /\ entry.folder # <<>>
    /\ StartsWith(normalizedPath, normalizedWorkspacePath(entry.folder))

\* faulty variant: of the entries that match, the one with the longest folder
getProjectFromFilePath_longest(filePath, workspaceEntries) ==
    LET normalizedPath == normalizedFilePath(filePath)
        Hit(entry) == EntryMatches(entry, normalizedPath)
        hits == SelectSeq(workspaceEntries, Hit)
        Longest(h) == \A g \in 1..Len(hits) :
                          Len(normalizedWorkspacePath(hits[g].folder))
                              <= Len(normalizedWorkspacePath(hits[h].folder))
    IN  IF hits = <<>> THEN NoProject
        ELSE hits[CHOOSE h \in 1..Len(hits) : Longest(h)].name

getProjectFromFilePath(filePath, workspaceEntries) ==
    LET normalizedPath == normalizedFilePath(filePath)
        Hit(entry) == EntryMatches(entry, normalizedPath)
        hits == SelectSeq(workspaceEntries, Hit)
    IN  IF hits = <<>> THEN NoProject ELSE hits[1].name

\* workspacePath.split('/').pop() || workspacePath.split('\\').pop()
folderNameOf(folder) ==
    LET workspacePath == RemoveFirst(folder, FileScheme)
        bySlash == Pop(Split(workspacePath, "/"))
    IN  IF bySlash # <<>> THEN bySlash ELSE Pop(Split(workspacePath, "\\"))

RECURSIVE createProjectNameToWorkspaceIdMapFrom(_, _)
createProjectNameToWorkspaceIdMapFrom(workspaceEntries, acc) ==
    IF workspaceEntries = <<>> THEN acc
    ELSE LET entry == Head(workspaceEntries)
             next == IF entry.jsonOk /\ entry.folder # <<>> /\ folderNameOf(entry.folder) # <<>>
                     THEN MapPut(acc, folderNameOf(entry.folder), entry.name)
                     ELSE acc
         IN  createProjectNameToWorkspaceIdMapFrom(Tail(workspaceEntries), next)

createProjectNameToWorkspaceIdMap(workspaceEntries) ==
    createProjectNameToWorkspaceIdMapFrom(workspaceEntries, EmptyMap)

\* the key under which a layout hint's root path is looked up in the folder-name index
LayoutKey(rootPath) == rootPath

\* tier 1: the layout hints recorded for the conversation
LayoutTier(composerId, projectLayoutsMap, projectNameToWorkspaceId) ==
    LET projectLayouts == MapGet(projectLayoutsMap, composerId, <<>>)
    IN  FirstFound([i \in 1..Len(projectLayouts) |->
            MapGet(projectNameToWorkspaceId, LayoutKey(projectLayouts[i]), NoProject)])

\* the file paths of a list, each looked up; a falsy path is skipped
PathsTier(paths, workspaceEntries) ==
    FirstFound([i \in 1..Len(paths) |->
        IF paths[i] = <<>> THEN NoProject
        ELSE getProjectFromFilePath(paths[i], workspaceEntries)])

\* tier 2: composerData.newlyCreatedFiles[].uri.path
NewlyCreatedFilesTier(composerData, workspaceEntries) ==
    PathsTier(composerData.newlyCreatedFiles, workspaceEntries)

\* tier 3: the keys of composerData.codeBlockData, each with 'file://' removed
CodeBlockDataTier(composerData, workspaceEntries) ==
    FirstFound([i \in 1..Len(composerData.codeBlockData) |->
        getProjectFromFilePath(RemoveFirst(composerData.codeBlockData[i], FileScheme),
                               workspaceEntries)])

\* the file references of one bubble: relevantFiles, attachedFileCodeChunksUris,
\* context.fileSelections, in that order
BubbleFileReferences(bubble) ==
    bubble.relevantFiles \o bubble.attachedFileCodeChunksUris \o bubble.fileSelections

\* tier 4: the bubbles of the headers, in header order
BubblesTier(composerData, workspaceEntries, bubbleMap) ==
    LET headers == composerData.fullConversationHeadersOnly
    IN  FirstFound([i \in 1..Len(headers) |->
            IF headers[i].bubbleId \in DOMAIN bubbleMap
            THEN PathsTier(BubbleFileReferences(bubbleMap[headers[i].bubbleId]),
                           workspaceEntries)
            ELSE NoProject])

\* the four tiers, in the order the function tries them
AttributionTiers(composerData, composerId, projectLayoutsMap, projectNameToWorkspaceId, workspaceEntries, bubbleMap) ==
    << LayoutTier(composerId, projectLayoutsMap, projectNameToWorkspaceId),
       NewlyCreatedFilesTier(composerData, workspaceEntries),
       CodeBlockDataTier(composerData, workspaceEntries),
       BubblesTier(composerData, workspaceEntries, bubbleMap) >>

\* faulty variant: the file tiers are tried before the layout hints
determineProjectForConversation_filesFirst(composerData, composerId, projectLayoutsMap, projectNameToWorkspaceId, workspaceEntries, bubbleMap) ==
    LET tiers == AttributionTiers(composerData, composerId, projectLayoutsMap,
                                  projectNameToWorkspaceId, workspaceEntries, bubbleMap)
    IN  FirstFound(<<tiers[2], tiers[3], tiers[4], tiers[1]>>)

determineProjectForConversation(composerData, composerId, projectLayoutsMap, projectNameToWorkspaceId, workspaceEntries, bubbleMap) ==
    FirstFound(AttributionTiers(composerData, composerId, projectLayoutsMap,
                                projectNameToWorkspaceId, workspaceEntries, bubbleMap))

----------------------------------------------------------------------------
(* The indices both handlers build from the rows of the global store *)

\* the root paths of the layout hints of one context row that parse and have one
RootPathsOf(layouts) ==
    LET Usable(layout) == layout.ok /\ layout.rootPath # <<>>
        usable == SelectSeq(layouts, Usable)
    IN  [i \in 1..Len(usable) |-> usable[i].rootPath]

RECURSIVE projectLayoutsMapFrom(_, _)
\* composerId -> root paths, from the messageRequestContext rows in row order
projectLayoutsMapFrom(rows, acc) ==
    IF rows = <<>> THEN acc
    ELSE LET row == Head(rows)
             next == IF row.ok /\ row.hasLayouts
                     THEN MapPut(acc, row.chat,
                                 MapGet(acc, row.chat, <<>>) \o RootPathsOf(row.projectLayouts))
                     ELSE acc
         IN  projectLayoutsMapFrom(Tail(rows), next)

RECURSIVE bubbleMapFrom(_, _)
\* bubbleId -> bubble, from the bubbleId rows in row order; the key is the third
\* segment of the row key alone, so a later row with the same bubble id replaces an
\* earlier one
bubbleMapFrom(rows, acc) ==
    IF rows = <<>> THEN acc
    ELSE LET row == Head(rows)
             next == IF row.kind = "object" THEN MapPut(acc, row.id, row) ELSE acc
         IN  bubbleMapFrom(Tail(rows), next)

----------------------------------------------------------------------------
(* String literals of the formatters of part_003 *)

Newline == <<"\n">>
CodeFenceOpen == <<"\n", "\n", "BQ", "BQ", "BQ">>
FenceClose == <<"\n", "BQ", "BQ", "BQ">>
RichCodeFence == <<"\n", "BQ", "BQ", "BQ", "\n">>
CodeChangesOpen == <<"\n", "\n", "*", "*", "C", "o", "d", "e", " ", "C", "h", "a", "n", "g",
    "e", "s", ":", "*", "*", "\n", "BQ", "BQ", "BQ", "\n">>
FileLabel == <<"\n", "\n", "*", "*", "F", "i", "l", "e", ":", "*", "*", " ">>
CommandLabel == <<"\n", "\n", "*", "*", "C", "o", "m", "m", "a", "n", "d", ":", "*", "*", " ", "BQ">>
Backtick == <<"BQ">>
SearchResultsLabel == <<"\n", "\n", "*", "*", "S", "e", "a", "r", "c", "h", " ", "R", "e", "s",
    "u", "l", "t", "s", ":", "*", "*", "\n">>
WebSearchLabel == <<"\n", "\n", "*", "*", "W", "e", "b", " ", "S", "e", "a", "r", "c", "h", ":",
    "*", "*", "\n">>
ToolActionSection == <<"\n", "\n", "*", "*", "T", "o", "o", "l", " ", "A", "c", "t", "i", "o",
    "n", ":", "*", "*", " ">>
ParamCommandLabel == <<"\n", "*", "*", "C", "o", "m", "m", "a", "n", "d", ":", "*", "*", " ", "BQ">>
ParamFileLabel == <<"\n", "*", "*", "F", "i", "l", "e", ":", "*", "*", " ">>
ParamQueryLabel == <<"\n", "*", "*", "Q", "u", "e", "r", "y", ":", "*", "*", " ">>
ParamInstructionsLabel == <<"\n", "*", "*", "I", "n", "s", "t", "r", "u", "c", "t", "i", "o",
    "n", "s", ":", "*", "*", " ">>
OutputOpen == <<"\n", "\n", "*", "*", "O", "u", "t", "p", "u", "t", ":", "*", "*", "\n", "BQ",
    "BQ", "BQ", "\n">>
FileContentsOpen == <<"\n", "\n", "*", "*", "F", "i", "l", "e", " ", "C", "o", "n", "t", "e",
    "n", "t", "s", ":", "*", "*", "\n", "BQ", "BQ", "BQ", "\n">>
ExitCodeLabel == <<"\n", "\n", "*", "*", "E", "x", "i", "t", " ", "C", "o", "d", "e", ":", "*",
    "*", " ">>
FilesFoundLabel == <<"\n", "\n", "*", "*", "F", "i", "l", "e", "s", " ", "F", "o", "u", "n",
    "d", ":", "*", "*">>
ListItem == <<"\n", "-", " ">>
ParenOpen == <<" ", "(">>
ParenClose == <<")">>
DefaultFileType == <<"f", "i", "l", "e">>
ResultsLabel == <<"\n", "\n", "*", "*", "R", "e", "s", "u", "l", "t", "s", ":", "*", "*">>
ResultFenceOpen == <<"\n", "BQ", "BQ", "BQ", "\n">>
ActionsTakenLabel == <<"\n", "\n", "*", "*", "A", "c", "t", "i", "o", "n", "s", " ", "T", "a",
    "k", "e", "n", ":", "*", "*", " ">>
CommaSpace == <<",", " ">>
FilesModifiedLabel == <<"\n", "\n", "*", "*", "F", "i", "l", "e", "s", " ", "M", "o", "d", "i",
    "f", "i", "e", "d", ":", "*", "*">>
GitStatusOpen == <<"\n", "\n", "*", "*", "G", "i", "t", " ", "S", "t", "a", "t", "u", "s", ":",
    "*", "*", "\n", "BQ", "BQ", "BQ", "\n">>
DirectoryListedLabel == <<"\n", "\n", "*", "*", "D", "i", "r", "e", "c", "t", "o", "r", "y",
    " ", "L", "i", "s", "t", "e", "d", ":", "*", "*", " ">>
WebSearchResultsLabel == <<"\n", "\n", "*", "*", "W", "e", "b", " ", "S", "e", "a", "r", "c",
    "h", " ", "R", "e", "s", "u", "l", "t", "s", ":", "*", "*">>
ToolActionLabel == <<"*", "*", "T", "o", "o", "l", " ", "A", "c", "t", "i", "o", "n", ":", "*",
    "*">>
TerminalFilesLabel == <<"\n", "\n", "*", "*", "T", "e", "r", "m", "i", "n", "a", "l", " ", "F",
    "i", "l", "e", "s", ":", "*", "*">>
AttachedFoldersLabel == <<"\n", "\n", "*", "*", "A", "t", "t", "a", "c", "h", "e", "d", " ",
    "F", "o", "l", "d", "e", "r", "s", ":", "*", "*">>
FolderLabel == <<"\n", "\n", "*", "*", "F", "o", "l", "d", "e", "r", ":", "*", "*", " ">>
UnknownFolder == <<"U", "n", "k", "n", "o", "w", "n">>
CursorRulesLabel == <<"\n", "\n", "*", "*", "C", "u", "r", "s", "o", "r", " ", "R", "u", "l",
    "e", "s", ":", "*", "*">>
DefaultRule == <<"R", "u", "l", "e">>
RelatedConversationsLabel == <<"\n", "\n", "*", "*", "R", "e", "l", "a", "t", "e", "d", " ",
    "C", "o", "n", "v", "e", "r", "s", "a", "t", "i", "o", "n", "s", ":", "*", "*">>
DefaultConversation == <<"C", "o", "n", "v", "e", "r", "s", "a", "t", "i", "o", "n">>

\* the title is cut at this many characters (part_003 line 588)
TitleMax == 100

\* the placeholder id is cut at this many characters (part_003 line 582)
IdMax == 8

\* Number.NaN as a timestamp: new Date(undefined).getTime()
NaN == -1

----------------------------------------------------------------------------
(* Text extraction of a bubble: part_003 lines 181-229 *)

When(cond, s) == IF cond THEN s ELSE <<>>

\* a || b for strings
Or(a, b) == IF a # <<>> THEN a ELSE b

RECURSIVE extractTextFromRichText(_)
extractTextFromRichText(children) ==
    Concat([i \in 1..Len(children) |->
        LET child == children[i]
        IN  IF child.type = "text" /\ child.text # <<>> THEN child.text
            ELSE IF child.type = "code" /\ child.hasChildren
                 THEN RichCodeFence \o extractTextFromRichText(child.children) \o RichCodeFence
            ELSE IF child.hasChildren THEN extractTextFromRichText(child.children)
            ELSE <<>>])

\* faulty variant: a text of whitespace stands, and the rich text is not looked at
BaseText_untrimmed(bubble) ==
    IF bubble.text # <<>> THEN bubble.text
    ELSE IF bubble.richText.kind = "tree" THEN extractTextFromRichText(bubble.richText.children)
    ELSE <<>>

\* the base text: the text field unless it trims to nothing, else the rich text
BaseText(bubble) ==
    IF bubble.text # <<>> /\ Trim(bubble.text) # <<>> THEN bubble.text
    ELSE IF bubble.richText.kind = "tree" THEN extractTextFromRichText(bubble.richText.children)
    ELSE <<>>

\* one fenced section for each code block that has content
CodeBlockSections(codeBlocks) ==
    Concat([i \in 1..Len(codeBlocks) |->
        When(codeBlocks[i].content # <<>>,
             CodeFenceOpen \o codeBlocks[i].language \o Newline \o codeBlocks[i].content
                 \o FenceClose)])

extractTextFromBubble(bubble) == BaseText(bubble) \o CodeBlockSections(bubble.codeBlocks)

----------------------------------------------------------------------------
(* The diff formatter: part_003 lines 54-179 *)

CodeChangesSection(action) ==
    Concat([i \in 1..Len(action.newModelDiffWrtV0) |->
        When(action.newModelDiffWrtV0[i].modified # <<>>,
             CodeChangesOpen \o Join(action.newModelDiffWrtV0[i].modified, Newline)
                 \o FenceClose)])

\* lines 92-110: nothing is added when the parameters do not parse
ParametersSection(parameters) ==
    IF parameters.kind # "object" THEN <<>>
    ELSE When(parameters.command # <<>>, ParamCommandLabel \o parameters.command \o Backtick)
         \o When(parameters.target_file # <<>>, ParamFileLabel \o parameters.target_file)
         \o When(parameters.query # <<>>, ParamQueryLabel \o parameters.query)
         \o When(parameters.instructions # <<>>,
                 ParamInstructionsLabel \o parameters.instructions)

\* lines 112-142
ResultSection(result) ==
    IF result.kind # "object" THEN <<>>
    ELSE When(result.output # <<>>, OutputOpen \o result.output \o FenceClose)
         \o When(result.contents # <<>>, FileContentsOpen \o result.contents \o FenceClose)
         \o When(result.exitCodeV2 # <<>>, ExitCodeLabel \o result.exitCodeV2)
         \o When(result.files # <<>>,
                 FilesFoundLabel \o Concat([i \in 1..Len(result.files) |->
                     ListItem \o Or(result.files[i].name, result.files[i].path) \o ParenOpen
                         \o Or(result.files[i].type, DefaultFileType) \o ParenClose]))
         \o When(result.results # <<>>,
                 ResultsLabel \o Concat([i \in 1..Len(result.results) |->
                     When(result.results[i].file # <<>> /\ result.results[i].content # <<>>,
                          FileLabel \o result.results[i].file \o ResultFenceOpen
                              \o result.results[i].content \o FenceClose)]))

ToolSection(action) ==
    When(action.toolName # <<>>,
         ToolActionSection \o action.toolName \o ParametersSection(action.parameters)
             \o ResultSection(action.result))

\* the sections in the order the function appends them
ToolActionSections(action) ==
    << CodeChangesSection(action),
       When(action.filePath # <<>>, FileLabel \o action.filePath),
       When(action.command # <<>>, CommandLabel \o action.command \o Backtick),
       When(action.searchResults # <<>>, SearchResultsLabel \o action.searchResults),
       When(action.webResults # <<>>, WebSearchLabel \o action.webResults),
       ToolSection(action),
       When(action.actionsTaken # <<>>,
            ActionsTakenLabel \o Join(action.actionsTaken, CommaSpace)),
       When(action.filesModified # <<>>,
            FilesModifiedLabel \o Concat([i \in 1..Len(action.filesModified) |->
                ListItem \o action.filesModified[i]])),
       When(action.gitStatus # <<>>, GitStatusOpen \o action.gitStatus \o FenceClose),
       When(action.directoryListed # <<>>, DirectoryListedLabel \o action.directoryListed),
       When(action.webSearchResults.present,
            WebSearchResultsLabel \o Concat([i \in 1..Len(action.webSearchResults.items) |->
                When(action.webSearchResults.items[i] # <<>>,
                     ListItem \o action.webSearchResults.items[i])])) >>

formatToolAction(action) == Concat(ToolActionSections(action))

----------------------------------------------------------------------------
(* The sections a request context adds to a turn: part_003 lines 523-563 *)

ContextSections(context) ==
    << When(context.gitStatusRaw # <<>>, GitStatusOpen \o context.gitStatusRaw \o FenceClose),
       When(context.terminalFiles # <<>>,
            TerminalFilesLabel \o Concat([i \in 1..Len(context.terminalFiles) |->
                ListItem \o context.terminalFiles[i]])),
       When(context.attachedFoldersListDirResults # <<>>,
            AttachedFoldersLabel
                \o Concat([i \in 1..Len(context.attachedFoldersListDirResults) |->
                    LET folder == context.attachedFoldersListDirResults[i]
                    IN  When(folder.files # <<>>,
                             FolderLabel \o Or(folder.path, UnknownFolder)
                                 \o Concat([j \in 1..Len(folder.files) |->
                                     ListItem \o folder.files[j].name \o ParenOpen
                                         \o folder.files[j].type \o ParenClose]))])),
       When(context.cursorRules # <<>>,
            CursorRulesLabel \o Concat([i \in 1..Len(context.cursorRules) |->
                ListItem \o Or(context.cursorRules[i].name,
                               Or(context.cursorRules[i].description, DefaultRule))])),
       When(context.summarizedComposers # <<>>,
            RelatedConversationsLabel \o Concat([i \in 1..Len(context.summarizedComposers) |->
                ListItem \o Or(context.summarizedComposers[i].name,
                               Or(context.summarizedComposers[i].composerId,
                                  DefaultConversation))])) >>

\* faulty variant: the sections of the first matching context only
contextTextOf_firstOnly(messageContexts, bubbleId) ==
    LET Matches(context) == context.bubbleId = bubbleId
        matching == SelectSeq(messageContexts, Matches)
    IN  IF matching = <<>> THEN <<>> ELSE Concat(ContextSections(matching[1]))

\* contextText of a bubble: the sections of every context of the conversation whose
\* bubbleId is the bubble's (lines 519-565)
contextTextOf(messageContexts, bubbleId) ==
    Concat([i \in 1..Len(messageContexts) |->
        When(messageContexts[i].bubbleId = bubbleId,
             Concat(ContextSections(messageContexts[i])))])

----------------------------------------------------------------------------
(* Array.prototype.sort with a comparator a.key - b.key: stable (ES2019) *)

RECURSIVE InsertIdx(_, _, _)
\* index i placed before the first index whose key is greater than keys[i]
InsertIdx(sorted, i, keys) ==
    IF sorted = <<>> THEN <<i>>
    ELSE IF keys[i] - keys[Head(sorted)] < 0 THEN <<i>> \o sorted
    ELSE <<Head(sorted)>> \o InsertIdx(Tail(sorted), i, keys)

RECURSIVE SortIdxFrom(_, _, _)
SortIdxFrom(keys, i, acc) ==
    IF i > Len(keys) THEN acc ELSE SortIdxFrom(keys, i + 1, InsertIdx(acc, i, keys))

\* the indices of keys in the order sort((a, b) => a.key - b.key) leaves them
SortedIndices(keys) == SortIdxFrom(keys, 1, <<>>)

----------------------------------------------------------------------------
(* The project listing: GET of part_002, lines 146-320 *)

\* workspace directories that have a workspace.json (lines 155-162)
workspaceEntriesOf(entries) ==
    LET Known(entry) == entry.isDirectory /\ entry.hasJson
    IN  SelectSeq(entries, Known)

RECURSIVE conversationMapFrom_break(_, _, _, _, _, _)
\* faulty variant: the loop ends at the first conversation without a project
conversationMapFrom_break(rows, acc, projectLayoutsMap, projectNameToWorkspaceId, workspaceEntries, bubbleMap) ==
    IF rows = <<>> THEN acc
    ELSE LET row == Head(rows)
             projectId == IF row.kind = "object"
                          THEN determineProjectForConversation(row, row.id, projectLayoutsMap,
                                   projectNameToWorkspaceId, workspaceEntries, bubbleMap)
                          ELSE NoProject
         IN  IF projectId = NoProject THEN acc
             ELSE conversationMapFrom_break(Tail(rows),
                      MapPut(acc, projectId, Append(MapGet(acc, projectId, <<>>), row.id)),
                      projectLayoutsMap, projectNameToWorkspaceId, workspaceEntries, bubbleMap)

RECURSIVE PutUnderAll(_, _, _)
\* the conversation appended to the list of each of the projects
PutUnderAll(acc, projects, composerId) ==
    IF projects = <<>> THEN acc
    ELSE PutUnderAll(MapPut(acc, Head(projects),
                            Append(MapGet(acc, Head(projects), <<>>), composerId)),
                     Tail(projects), composerId)

RECURSIVE conversationMapFrom_everyTier(_, _, _, _, _, _)
\* faulty variant: the conversation is counted once for every tier that finds a project
conversationMapFrom_everyTier(rows, acc, projectLayoutsMap, projectNameToWorkspaceId, workspaceEntries, bubbleMap) ==
    IF rows = <<>> THEN acc
    ELSE LET row == Head(rows)
             Found(projectId) == projectId # NoProject
             projects == IF row.kind = "object"
                         THEN SelectSeq(AttributionTiers(row, row.id, projectLayoutsMap,
                                  projectNameToWorkspaceId, workspaceEntries, bubbleMap), Found)
                         ELSE <<>>
         IN  conversationMapFrom_everyTier(Tail(rows), PutUnderAll(acc, projects, row.id),
                 projectLayoutsMap, projectNameToWorkspaceId, workspaceEntries, bubbleMap)

RECURSIVE conversationMapFrom(_, _, _, _, _, _)
\* projectId -> composer ids, from the composerData rows in row order (lines 234-273)
conversationMapFrom(rows, acc, projectLayoutsMap, projectNameToWorkspaceId, workspaceEntries, bubbleMap) ==
    IF rows = <<>> THEN acc
    ELSE LET row == Head(rows)
             projectId == IF row.kind = "object"
                          THEN determineProjectForConversation(row, row.id, projectLayoutsMap,
                                   projectNameToWorkspaceId, workspaceEntries, bubbleMap)
                          ELSE NoProject
             next == IF projectId = NoProject THEN acc
                     ELSE MapPut(acc, projectId, Append(MapGet(acc, projectId, <<>>), row.id))
         IN  conversationMapFrom(Tail(rows), next, projectLayoutsMap, projectNameToWorkspaceId,
                                 workspaceEntries, bubbleMap)

\* the conversation map the handler holds after reading the global store (lines 168-279)
ProjectsConversationMap(workspaceEntries) ==
    IF globalDb.state = "ok"
    THEN conversationMapFrom(globalDb.composerRows, EmptyMap,
             projectLayoutsMapFrom(globalDb.contextRows, EmptyMap),
             createProjectNameToWorkspaceIdMap(workspaceEntries),
             workspaceEntries,
             bubbleMapFrom(globalDb.bubbleRows, EmptyMap))
    ELSE EmptyMap

\* the name under which the open handles hold the global store (globalDb, line 175)
GlobalHandle == <<"global">>

\* the handle of the global store is closed at line 275 only when nothing threw after
\* line 175; a store without the cursorDiskKV table makes prepare() throw at line 178
ProjectsGlobalLeak == IF globalDb.state = "notable" THEN {GlobalHandle} ELSE {}

\* workspaceName (lines 287-296): folder.split('/').pop() || folder.split('\\').pop(),
\* else `Project ${entry.name.slice(0, 8)}`
workspaceNameOf(entry) ==
    LET fallback == ProjectPrefix \o Substring(entry.name, 8)
        bySlash == Pop(Split(entry.folder, "/"))
        folderName == IF bySlash # <<>> THEN bySlash ELSE Pop(Split(entry.folder, "\\"))
    IN  IF entry.jsonOk /\ entry.folder # <<>> /\ folderName # <<>> THEN folderName
        ELSE fallback

\* the project pushed for one entry (lines 298-309)
ProjectOf(entry, conversationMap) ==
    [ id |-> entry.name,
      name |-> workspaceNameOf(entry),
      conversationCount |-> Len(MapGet(conversationMap, entry.name, <<>>)),
      lastModified |-> entry.mtime ]

\* projects.sort((a, b) => b.lastModified - a.lastModified) (line 313)
SortProjects(projects) ==
    LET order == SortedIndices([i \in 1..Len(projects) |-> 0 - projects[i].lastModified])
    IN  [i \in 1..Len(projects) |-> projects[order[i]]]

Failure == [status |-> 500, body |-> <<>>]

\* a request arrives at a handler
Request(handler, id) ==
    /\ pc = "idle"
    /\ pc' = "readdir"
    /\ req' = [handler |-> handler, id |-> id]
    /\ UNCHANGED <<rootOk, dirs, globalDb, now, open, loc, resp>>

ProjectsRequest == Request("projects", <<>>)

\* lines 147-279: up to the first await of the loop over the entries
ProjectsScan ==
    /\ pc = "readdir" /\ req.handler = "projects"
    /\ IF ~rootOk
       THEN /\ resp' = Failure
            /\ pc' = "done"
            /\ UNCHANGED <<open, loc>>
       ELSE LET workspaceEntries == workspaceEntriesOf(dirs)
            IN  /\ loc' = [ workspaceEntries |-> workspaceEntries,
                            conversationMap |-> ProjectsConversationMap(workspaceEntries),
                            i |-> 1,
                            projects |-> <<>> ]
                /\ open' = open \cup ProjectsGlobalLeak
                /\ pc' = "entries"
                /\ UNCHANGED resp
    /\ UNCHANGED <<rootOk, dirs, globalDb, now, req>>

\* faulty variant: a project without conversations is not pushed
ProjectsEntry_hideEmpty ==
    /\ pc = "entries" /\ req.handler = "projects"
    /\ loc.i <= Len(loc.workspaceEntries)
    /\ LET entry == loc.workspaceEntries[loc.i]
           project == [ id |-> entry.name,
                        conversationCount |->
                            Len(MapGet(loc.conversationMap, entry.name, <<>>)),
                        lastModified |-> entry.mtime ]
       IN  IF ~entry.hasDb
           THEN /\ resp' = Failure
                /\ pc' = "done"
                /\ UNCHANGED loc
           ELSE /\ loc' = [loc EXCEPT !.i = @ + 1,
                                      !.projects = IF project.conversationCount = 0 THEN @
                                                   ELSE Append(@, project)]
                /\ UNCHANGED <<pc, resp>>
    /\ UNCHANGED <<rootOk, dirs, globalDb, now, req, open>>

\* lines 282-310: one round of the loop; fs.stat throws when the store file is missing
ProjectsEntry ==
    /\ pc = "entries" /\ req.handler = "projects"
    /\ loc.i <= Len(loc.workspaceEntries)
    /\ LET entry == loc.workspaceEntries[loc.i]
       IN  IF ~entry.hasDb
           THEN /\ resp' = Failure
                /\ pc' = "done"
                /\ UNCHANGED loc
           ELSE /\ loc' = [loc EXCEPT !.i = @ + 1,
                                      !.projects = Append(@, ProjectOf(entry, loc.conversationMap))]
                /\ UNCHANGED <<pc, resp>>
    /\ UNCHANGED <<rootOk, dirs, globalDb, now, req, open>>

\* lines 312-315
ProjectsRespond ==
    /\ pc = "entries" /\ req.handler = "projects"
    /\ loc.i > Len(loc.workspaceEntries)
    /\ resp' = [status |-> 200, body |-> SortProjects(loc.projects)]
    /\ pc' = "done"
    /\ UNCHANGED <<rootOk, dirs, globalDb, now, req, open, loc>>

----------------------------------------------------------------------------
(* Storage: the values the initial states draw from *)

W1 == <<"W", "1">>
W2 == <<"W", "2">>
FolderP1 == <<"f", "i", "l", "e", ":", "/", "/", "/", "U", "s", "e", "r", "s", "/", "e", "v",
    "a", "r", "a", "n", "/", "p", "1">>
FolderP2 == <<"f", "i", "l", "e", ":", "/", "/", "/", "w", "/", "p", "2">>
NameP1 == <<"p", "1">>
NameP2 == <<"p", "2">>
RootP2 == <<"/", "w", "/", "p", "2">>
NameZz == <<"z", "z">>
PathInP1 == <<"/", "U", "s", "e", "r", "s", "/", "e", "v", "a", "r", "a", "n", "/", "p", "1",
    "/", "a">>
PathInP2 == <<"/", "w", "/", "p", "2", "/", "b">>
UriInP2 == <<"f", "i", "l", "e", ":", "/", "/", "/", "w", "/", "p", "2", "/", "b">>
PathNowhere == <<"/", "x", "/", "c">>
ComposerA == <<"c", "A", "-", "0", "1", "2", "3", "4", "5", "6">>
ComposerB == <<"c", "B", "-", "0", "1", "2", "3", "4", "5", "6">>

\* the value of one key of a workspace store's ItemTable: no row, a value that is
\* not JSON, or a parsed object with its list
NoValue == [kind |-> "none", items |-> <<>>]
BadValue == [kind |-> "bad", items |-> <<>>]

\* an entry of the storage root
Dir(name, hasJson, jsonOk, folder, hasDb, mtime) ==
    [ name |-> name, isDirectory |-> TRUE, hasJson |-> hasJson, jsonOk |-> jsonOk,
      folder |-> folder, hasDb |-> hasDb, mtime |-> mtime,
      chatdata |-> NoValue, composerData |-> NoValue ]

\* a bubbleId:<chat>:<id> row whose value is an object
Bubble(chat, id, text, timestamp, relevantFiles) ==
    [ chat |-> chat, id |-> id, kind |-> "object", text |-> text,
      richText |-> [kind |-> "none", children |-> <<>>], codeBlocks |-> <<>>,
      timestamp |-> timestamp, relevantFiles |-> relevantFiles,
      attachedFileCodeChunksUris |-> <<>>, fileSelections |-> <<>> ]

\* a leaf of a rich-text tree
TextNode(text) == [type |-> "text", text |-> text, hasChildren |-> FALSE, children |-> <<>>]

\* an inner node of a rich-text tree
TreeNode(type, children) == [type |-> type, text |-> <<>>, hasChildren |-> TRUE, children |-> children]

\* a bubble row without a text field, whose richText parses to a tree
RichBubble(chat, id, children, timestamp) ==
    [Bubble(chat, id, <<>>, timestamp, <<>>) EXCEPT !.richText = [kind |-> "tree", children |-> children]]

\* a composerData:<id> row whose value is an object
Composer(id, name, headers, newlyCreatedFiles, codeBlockData) ==
    [ id |-> id, kind |-> "object", name |-> name,
      fullConversationHeadersOnly |-> headers,
      newlyCreatedFiles |-> newlyCreatedFiles, codeBlockData |-> codeBlockData,
      lastUpdatedAt |-> 0, createdAt |-> 1 ]

\* a row whose value is not JSON
BadComposer(id) == [Composer(id, <<>>, <<>>, <<>>, <<>>) EXCEPT !.kind = "bad"]

Header(bubbleId, type) == [bubbleId |-> bubbleId, type |-> type]

\* a messageRequestContext:<chat>:<id> row
Context(chat, id, bubbleId, rootPaths, gitStatusRaw) ==
    [ chat |-> chat, id |-> id, ok |-> TRUE, hasContextId |-> TRUE, bubbleId |-> bubbleId,
      hasLayouts |-> TRUE,
      projectLayouts |-> [i \in 1..Len(rootPaths) |-> [ok |-> TRUE, rootPath |-> rootPaths[i]]],
      gitStatusRaw |-> gitStatusRaw, terminalFiles |-> <<>>,
      attachedFoldersListDirResults |-> <<>>, cursorRules |-> <<>>,
      summarizedComposers |-> <<>> ]

\* the parameters or the result of a tool action: absent, not JSON, or an object
NoObject == [ kind |-> "none", command |-> <<>>, target_file |-> <<>>, query |-> <<>>,
              instructions |-> <<>>, output |-> <<>>, contents |-> <<>>,
              exitCodeV2 |-> <<>>, files |-> <<>>, results |-> <<>> ]

\* a diff payload with no field present
EmptyAction ==
    [ newModelDiffWrtV0 |-> <<>>, filePath |-> <<>>, command |-> <<>>,
      searchResults |-> <<>>, webResults |-> <<>>, toolName |-> <<>>,
      parameters |-> NoObject, result |-> NoObject, actionsTaken |-> <<>>,
      filesModified |-> <<>>, gitStatus |-> <<>>, directoryListed |-> <<>>,
      webSearchResults |-> [present |-> FALSE, items |-> <<>>] ]

\* a codeBlockDiff:<chat>:<id> row
Diff(chat, id, action) == [chat |-> chat, id |-> id, ok |-> TRUE, action |-> action]

GlobalStore(bubbleRows, composerRows, diffRows, contextRows) ==
    [ state |-> "ok", bubbleRows |-> bubbleRows, composerRows |-> composerRows,
      diffRows |-> diffRows, contextRows |-> contextRows ]

\* no global store file, and one without the cursorDiskKV table
GlobalMissing == [GlobalStore(<<>>, <<>>, <<>>, <<>>) EXCEPT !.state = "missing"]
GlobalNoTable == [GlobalStore(<<>>, <<>>, <<>>, <<>>) EXCEPT !.state = "notable"]

NoLocals == [i |-> 0]
NoResponse == [status |-> 0, body |-> <<>>]

\* what every initial state shares: no request yet
InitRequest ==
    /\ now = MaxTime
    /\ pc = "idle"
    /\ req = [handler |-> "none", id |-> <<>>]
    /\ open = {}
    /\ loc = NoLocals
    /\ resp = NoResponse

----------------------------------------------------------------------------
(* The project listing over two workspaces and up to two conversations *)

HintPool == { <<>>, <<NameP1>>, <<NameP2>>, <<RootP2>>, <<NameZz, NameP2>> }

\* conversation B: absent, not JSON, without evidence, or with a file of p1
ComposerBPool ==
    { <<>>,
      <<BadComposer(ComposerB)>>,
      <<Composer(ComposerB, <<>>, <<Header("b2", 1)>>, <<>>, <<>>)>>,
      <<Composer(ComposerB, <<>>, <<Header("b2", 1)>>, <<PathNowhere, PathInP1>>, <<>>)>> }

InitProjects ==
    /\ InitRequest
    /\ \E w1HasJson, w1HasDb, w2HasDb \in BOOLEAN, w2Folder \in {FolderP2, <<>>}, m \in 1..3 :
          dirs = << Dir(W1, w1HasJson, TRUE, FolderP1, w1HasDb, 2),
                    Dir(W2, TRUE, TRUE, w2Folder, w2HasDb, m) >>
    /\ \/ globalDb \in {GlobalMissing, GlobalNoTable}
       \/ \E hints \in HintPool,
             created \in {<<>>, <<PathInP1>>, <<PathInP2>>},
             blocks \in {<<>>, <<UriInP2>>},
             relevant \in {<<>>, <<PathInP1>>},
             second \in ComposerBPool :
             globalDb = GlobalStore(
                 << Bubble(ComposerA, "b1", <<"a">>, 1, relevant),
                    Bubble(ComposerB, "b2", <<"b">>, 1, <<>>) >>,
                 second \o <<Composer(ComposerA, <<>>, <<Header("b1", 1)>>, created, blocks)>>,
                 <<>>,
                 <<Context(ComposerA, "x1", "b1", hints, <<>>)>>)
    /\ rootOk \in IF globalDb.state = "missing" THEN BOOLEAN ELSE {TRUE}

NextProjects ==
    \/ ProjectsRequest
    \/ ProjectsScan
    \/ ProjectsEntry
    \/ ProjectsRespond

SpecProjects == InitProjects /\ [][NextProjects]_vars

----------------------------------------------------------------------------
(* The conversations of one project: GET of part_003, lines 352-645 *)

RECURSIVE codeBlockDiffMapFrom(_, _)
\* chatId -> diff payloads, from the codeBlockDiff rows in row order (lines 403-418)
codeBlockDiffMapFrom(rows, acc) ==
    IF rows = <<>> THEN acc
    ELSE LET row == Head(rows)
             next == IF row.chat # <<>> /\ row.ok
                     THEN MapPut(acc, row.chat, Append(MapGet(acc, row.chat, <<>>), row))
                     ELSE acc
         IN  codeBlockDiffMapFrom(Tail(rows), next)

RECURSIVE messageRequestContextMapFrom(_, _)
\* chatId -> contexts, from the messageRequestContext rows in row order (lines 421-439)
messageRequestContextMapFrom(rows, acc) ==
    IF rows = <<>> THEN acc
    ELSE LET row == Head(rows)
             next == IF row.hasContextId /\ row.ok
                     THEN MapPut(acc, row.chat, Append(MapGet(acc, row.chat, <<>>), row))
                     ELSE acc
         IN  messageRequestContextMapFrom(Tail(rows), next)

\* the rows the query of line 474 returns: the value holds fullConversationHeadersOnly
\* and not fullConversationHeadersOnly":[]
composerRowsWithHeaders(rows) ==
    LET Selected(row) == row.kind = "bad" \/ row.fullConversationHeadersOnly # <<>>
    IN  SelectSeq(rows, Selected)

\* faulty variant: the text is tested without trim()
KeepTurn_noTrim(fullText) == fullText # <<>>

\* if (fullText.trim()) at line 570, if (diffText.trim()) at line 598
KeepTurn(fullText) == Trim(fullText) # <<>>

\* timestamp || Date.now()
OrNow(timestamp, t) == IF timestamp # 0 THEN timestamp ELSE t

\* the turns built from the headers, in header order (lines 505-578); t is Date.now()
HeaderTurns(composerData, composerId, bubbleMap, messageRequestContextMap, t) ==
    LET headers == composerData.fullConversationHeadersOnly
        messageContexts == MapGet(messageRequestContextMap, composerId, <<>>)
    IN  Concat([i \in 1..Len(headers) |->
            LET bubbleId == headers[i].bubbleId
            IN  IF bubbleId \notin DOMAIN bubbleMap THEN <<>>
                ELSE LET bubble == bubbleMap[bubbleId]
                         fullText == extractTextFromBubble(bubble)
                                         \o contextTextOf(messageContexts, bubbleId)
                     IN  IF KeepTurn(fullText)
                         THEN << [ type |-> IF headers[i].type = 1 THEN "user" ELSE "ai",
                                   text |-> fullText,
                                   timestamp |-> OrNow(bubble.timestamp, t) ] >>
                         ELSE <<>>])

\* faulty variant: the first message is not split into lines
titleOf_wholeMessage(composerData, composerId, bubbles) ==
    LET cut == Substring(bubbles[1].text, TitleMax)
    IN  IF composerData.name # <<>> THEN composerData.name
        ELSE IF bubbles # <<>> /\ bubbles[1].text # <<>>
             THEN IF Len(cut) = TitleMax THEN cut \o Ellipsis ELSE cut
        ELSE ConversationPrefix \o Substring(composerId, IdMax)

\* faulty variant: the cut line gets no ellipsis
titleOf_noEllipsis(composerData, composerId, bubbles) ==
    LET NonEmpty(line) == Len(Trim(line)) > 0
        firstLines == SelectSeq(Split(bubbles[1].text, "\n"), NonEmpty)
    IN  IF composerData.name # <<>> THEN composerData.name
        ELSE IF bubbles # <<>> /\ bubbles[1].text # <<>> /\ firstLines # <<>>
             THEN Substring(firstLines[1], TitleMax)
        ELSE ConversationPrefix \o Substring(composerId, IdMax)

\* the title (lines 582-592)
titleOf(composerData, composerId, bubbles) ==
    LET NonEmpty(line) == Len(Trim(line)) > 0
        firstLines == SelectSeq(Split(bubbles[1].text, "\n"), NonEmpty)
        cut == Substring(firstLines[1], TitleMax)
    IN  IF composerData.name # <<>> THEN composerData.name
        ELSE IF bubbles # <<>> /\ bubbles[1].text # <<>> /\ firstLines # <<>>
             THEN IF Len(cut) = TitleMax THEN cut \o Ellipsis ELSE cut
        ELSE ConversationPrefix \o Substring(composerId, IdMax)

\* faulty variant: a turn for every diff, also one that formats to nothing
DiffTurns_unfiltered(codeBlockDiffs, t) ==
    [i \in 1..Len(codeBlockDiffs) |->
        [ type |-> "ai", text |-> ToolActionLabel \o formatToolAction(codeBlockDiffs[i].action),
          timestamp |-> t ]]

\* one turn for each diff whose formatted text does not trim to nothing (lines 595-605)
DiffTurns(codeBlockDiffs, t) ==
    Concat([i \in 1..Len(codeBlockDiffs) |->
        LET diffText == formatToolAction(codeBlockDiffs[i].action)
        IN  IF KeepTurn(diffText)
            THEN << [type |-> "ai", text |-> ToolActionLabel \o diffText, timestamp |-> t] >>
            ELSE <<>>])

\* faulty variant: a sort that is not stable, turns with equal timestamps come out
\* in the reverse of their insertion order
SortBubbles_unstable(bubbles) ==
    LET n == Len(bubbles)
        reversed == [i \in 1..n |-> bubbles[n + 1 - i]]
        order == SortedIndices([i \in 1..n |-> reversed[i].timestamp])
    IN  [i \in 1..n |-> reversed[order[i]]]

\* faulty variant: the turns are left in insertion order
SortBubbles_unsorted(bubbles) == bubbles

\* bubbles.sort((a, b) => (a.timestamp || 0) - (b.timestamp || 0)) (line 608)
SortBubbles(bubbles) ==
    LET order == SortedIndices([i \in 1..Len(bubbles) |-> bubbles[i].timestamp])
    IN  [i \in 1..Len(bubbles) |-> bubbles[order[i]]]

\* new Date(composerData.lastUpdatedAt || composerData.createdAt).getTime() (line 613)
tabTimestamp(composerData) ==
    IF composerData.lastUpdatedAt # 0 THEN composerData.lastUpdatedAt
    ELSE IF composerData.createdAt # 0 THEN composerData.createdAt
    ELSE NaN

\* faulty variant: the title is taken from the first turn after the sort
tabsOfConversation_titleAfterSort(composerData, composerId, bubbleMap, codeBlockDiffMap, messageRequestContextMap, t0, t1) ==
    LET fromHeaders == HeaderTurns(composerData, composerId, bubbleMap,
                                   messageRequestContextMap, t0)
        codeBlockDiffs == MapGet(codeBlockDiffMap, composerId, <<>>)
        bubbles == SortBubbles(fromHeaders \o DiffTurns(codeBlockDiffs, t1))
    IN  IF fromHeaders = <<>> THEN <<>>
        ELSE << [ id |-> composerId,
                  title |-> titleOf(composerData, composerId, bubbles),
                  timestamp |-> tabTimestamp(composerData),
                  bubbles |-> [i \in 1..Len(bubbles) |->
                                  [ type |-> bubbles[i].type,
                                    text |-> bubbles[i].text,
                                    timestamp |-> OrNow(bubbles[i].timestamp, t1) ]],
                  codeBlockDiffs |-> [i \in 1..Len(codeBlockDiffs) |-> codeBlockDiffs[i].id] ] >>

\* faulty variant: the conversation is returned when it has any turn, one appended
\* for a diff too
tabsOfConversation_anyTurn(composerData, composerId, bubbleMap, codeBlockDiffMap, messageRequestContextMap, t0, t1) ==
    LET fromHeaders == HeaderTurns(composerData, composerId, bubbleMap,
                                   messageRequestContextMap, t0)
        codeBlockDiffs == MapGet(codeBlockDiffMap, composerId, <<>>)
        bubbles == SortBubbles(fromHeaders \o DiffTurns(codeBlockDiffs, t1))
    IN  IF bubbles = <<>> THEN <<>>
        ELSE << [ id |-> composerId,
                  title |-> titleOf(composerData, composerId, fromHeaders),
                  timestamp |-> tabTimestamp(composerData),
                  bubbles |-> [i \in 1..Len(bubbles) |->
                                  [ type |-> bubbles[i].type,
                                    text |-> bubbles[i].text,
                                    timestamp |-> OrNow(bubbles[i].timestamp, t1) ]],
                  codeBlockDiffs |-> [i \in 1..Len(codeBlockDiffs) |-> codeBlockDiffs[i].id] ] >>

\* the tab of one conversation of the project, none when no turn was built from its
\* headers (lines 499-621); t0 and t1 are Date.now() while the headers and then the
\* diffs are processed
tabsOfConversation(composerData, composerId, bubbleMap, codeBlockDiffMap, messageRequestContextMap, t0, t1) ==
    LET fromHeaders == HeaderTurns(composerData, composerId, bubbleMap,
                                   messageRequestContextMap, t0)
        codeBlockDiffs == MapGet(codeBlockDiffMap, composerId, <<>>)
        bubbles == SortBubbles(fromHeaders \o DiffTurns(codeBlockDiffs, t1))
    IN  IF fromHeaders = <<>> THEN <<>>
        ELSE << [ id |-> composerId,
                  title |-> titleOf(composerData, composerId, fromHeaders),
                  timestamp |-> tabTimestamp(composerData),
                  bubbles |-> [i \in 1..Len(bubbles) |->
                                  [ type |-> bubbles[i].type,
                                    text |-> bubbles[i].text,
                                    timestamp |-> OrNow(bubbles[i].timestamp, t1) ]],
                  codeBlockDiffs |-> [i \in 1..Len(codeBlockDiffs) |-> codeBlockDiffs[i].id] ] >>

\* faulty variant: every conversation is taken for one of the first workspace
projectOfRow_firstEntry(row, workspaceEntries) ==
    IF workspaceEntries = <<>> THEN NoProject ELSE workspaceEntries[1].name

\* the project of one selected row; a row that is not JSON is skipped
projectOfRow(row, workspaceEntries) ==
    IF row.kind # "object" THEN NoProject
    ELSE determineProjectForConversation(row, row.id,
             projectLayoutsMapFrom(globalDb.contextRows, EmptyMap),
             createProjectNameToWorkspaceIdMap(workspaceEntries),
             workspaceEntries,
             bubbleMapFrom(globalDb.bubbleRows, EmptyMap))

\* response.tabs (lines 477-626)
tabsOf(id, workspaceEntries, t0, t1) ==
    LET rows == composerRowsWithHeaders(globalDb.composerRows)
        bubbleMap == bubbleMapFrom(globalDb.bubbleRows, EmptyMap)
        codeBlockDiffMap == codeBlockDiffMapFrom(globalDb.diffRows, EmptyMap)
        messageRequestContextMap ==
            messageRequestContextMapFrom(globalDb.contextRows, EmptyMap)
    IN  Concat([i \in 1..Len(rows) |->
            IF rows[i].kind # "object" \/ projectOfRow(rows[i], workspaceEntries) # id
            THEN <<>>
            ELSE tabsOfConversation(rows[i], rows[i].id, bubbleMap, codeBlockDiffMap,
                                    messageRequestContextMap, t0, t1)])

\* the ids a request may name: the two workspaces and an unknown one
RequestIds == {W1, W2, NameZz}

TabsRequest == \E id \in RequestIds : Request("tabs", id)

\* lines 365 and 638-643: readdir throws, no store was opened
TabsRootUnavailable ==
    /\ pc = "readdir" /\ req.handler = "tabs"
    /\ ~rootOk
    /\ resp' = Failure
    /\ pc' = "done"
    /\ UNCHANGED <<rootOk, dirs, globalDb, now, req, open, loc>>

\* lines 384 and 629-631
TabsGlobalMissing ==
    /\ pc = "readdir" /\ req.handler = "tabs"
    /\ rootOk /\ globalDb.state = "missing"
    /\ resp' = [status |-> 404, body |-> <<>>]
    /\ pc' = "done"
    /\ UNCHANGED <<rootOk, dirs, globalDb, now, req, open, loc>>

\* lines 365-385: the entries are read and the global store is opened
TabsOpen ==
    /\ pc = "readdir" /\ req.handler = "tabs"
    /\ rootOk /\ globalDb.state # "missing"
    /\ open' = open \cup {GlobalHandle}
    /\ loc' = [workspaceEntries |-> workspaceEntriesOf(dirs)]
    /\ pc' = "scan"
    /\ UNCHANGED <<rootOk, dirs, globalDb, now, req, resp>>

\* lines 388 and 638-643: prepare() throws, the catch closes the store
TabsScanFails ==
    /\ pc = "scan" /\ req.handler = "tabs"
    /\ globalDb.state = "notable"
    /\ open' = open \ {GlobalHandle}
    /\ resp' = Failure
    /\ pc' = "done"
    /\ UNCHANGED <<rootOk, dirs, globalDb, now, req, loc>>

\* lines 387-637
TabsAssemble ==
    /\ pc = "scan" /\ req.handler = "tabs"
    /\ globalDb.state = "ok"
    /\ \E tick \in 0..MaxTick :
          /\ now' = now + tick
          /\ resp' = [ status |-> 200,
                       body |-> tabsOf(req.id, loc.workspaceEntries, now, now + tick) ]
    /\ open' = open \ {GlobalHandle}
    /\ pc' = "done"
    /\ UNCHANGED <<rootOk, dirs, globalDb, req, loc>>

----------------------------------------------------------------------------
(* The conversations of project W1 over varied bubbles, contexts and diffs *)

NameN == <<"M", "y", " ", "c", "h", "a", "t">>
Hello == <<"h", "e", "l", "l", "o">>
World == <<"w", "o", "r", "l", "d">>
FixTheBug == <<"F", "i", "x", " ", "t", "h", "e", " ", "b", "u", "g">>
MoreText == <<"m", "o", "r", "e", " ", "t", "e", "x", "t">>
Blank == <<" ", "\n">>
Indented == <<"\n", " ", " ", "x">>
SrcFile == <<"a", ".", "t", "s">>
GitM == <<"M", " ", "a">>

TextPool ==
    { <<>>, Blank, Hello, FixTheBug \o Newline \o MoreText, Indented,
      Rep("x", TitleMax - 1), Rep("x", TitleMax),
      Rep("y", TitleMax + 1) \o Newline \o MoreText }

HeadersPool ==
    { <<Header("b1", 1)>>,
      <<Header("b1", 1), Header("b2", 2)>>,
      <<Header("b2", 2), Header("b1", 1)>>,
      <<Header("b3", 1), Header("b1", 2)>> }

DiffsPool ==
    { <<>>,
      <<Diff(ComposerA, "d1", EmptyAction)>>,
      <<Diff(ComposerA, "d1", [EmptyAction EXCEPT !.filePath = SrcFile]),
        Diff(ComposerA, "d2", EmptyAction)>> }

\* bubble b2: a text, a text of whitespace, or a rich text of one whitespace leaf
SecondBubble(which, timestamp) ==
    IF which = 1 THEN Bubble(ComposerA, "b2", World, timestamp, <<>>)
    ELSE IF which = 2 THEN Bubble(ComposerA, "b2", Blank, timestamp, <<>>)
    ELSE RichBubble(ComposerA, "b2", <<TreeNode("paragraph", <<TextNode(<<" ">>)>>)>>, timestamp)

TwoWorkspaces ==
    << Dir(W1, TRUE, TRUE, FolderP1, TRUE, 2), Dir(W2, TRUE, TRUE, FolderP2, TRUE, 1) >>

InitTabs ==
    /\ InitRequest
    /\ dirs = TwoWorkspaces
    /\ \/ globalDb \in {GlobalMissing, GlobalNoTable}
       \/ \E text1 \in TextPool, time1, time2 \in 0..MaxTime, second \in 1..3,
             headers \in HeadersPool, name \in {<<>>, NameN}, git \in {<<>>, GitM},
             diffs \in DiffsPool :
             globalDb = GlobalStore(
                 << Bubble(ComposerA, "b1", text1, time1, <<>>),
                    SecondBubble(second, time2),
                    Bubble(ComposerB, "b4", Hello, 1, <<>>) >>,
                 << Composer(ComposerA, name, headers, <<>>, <<>>),
                    [Composer(ComposerB, <<>>, <<Header("b4", 2)>>, <<PathInP2>>, <<>>)
                        EXCEPT !.createdAt = 0] >>,
                 diffs,
                 <<Context(ComposerA, "x1", "b1", <<NameP1>>, git)>>)
    /\ rootOk \in IF globalDb.state = "missing" THEN BOOLEAN ELSE {TRUE}

NextTabs ==
    \/ TabsRequest
    \/ TabsRootUnavailable
    \/ TabsGlobalMissing
    \/ TabsOpen
    \/ TabsScanFails
    \/ TabsAssemble

SpecTabs == InitTabs /\ [][NextTabs]_vars

----------------------------------------------------------------------------
(* The log listing: the second GET of src/app/api/logs/route.ts, lines 124-237 *)

ChatPrefix == <<"C", "h", "a", "t", " ">>
ComposerPrefix == <<"C", "o", "m", "p", "o", "s", "e", "r", " ">>
GlobalId == <<"g", "l", "o", "b", "a", "l">>
TabOne == <<"t", "1">>
TabTwo == <<"t", "2">>
LegacyOne == <<"k", "1">>
OldChat == <<"o", "l", "d", " ", "c", "h", "a", "t">>

\* a tab of a workspace's chat data and a composer of its composer data
Tab(id, title, timestamp, count) == [id |-> id, title |-> title, timestamp |-> timestamp, count |-> count]
LegacyComposer(composerId, text, lastUpdatedAt, createdAt, count) == [composerId |-> composerId, text |-> text, lastUpdatedAt |-> lastUpdatedAt, createdAt |-> createdAt, count |-> count]

\* a parsed value with its tabs or its allComposers
Items(items) == [kind |-> "object", items |-> items]

RECURSIVE chatIdsFrom(_, _)
\* Object.keys(chatMap): the chat ids of the bubble rows that parse, in the order of
\* their first row (lines 137-148)
chatIdsFrom(rows, acc) ==
    IF rows = <<>> THEN acc
    ELSE LET row == Head(rows)
             seen == \E k \in 1..Len(acc) : acc[k] = row.chat
         IN  chatIdsFrom(Tail(rows),
                         IF row.chat # <<>> /\ row.kind # "bad" /\ ~seen THEN Append(acc, row.chat)
                         ELSE acc)

\* the log of one chat of the global store, none when it has no bubble that is an
\* object (lines 149-172); t is Date.now()
globalLogOf(chatId, rows, t) ==
    LET Mine(row) == row.chat = chatId /\ row.kind = "object"
        mine == SelectSeq(rows, Mine)
        bubbles == SortBubbles(mine)
        firstLine == Split(bubbles[1].text, "\n")[1]
    IN  IF mine = <<>> THEN <<>>
        ELSE << [ id |-> chatId, workspaceId |-> GlobalId,
                  title |-> Or(firstLine, ChatPrefix \o Substring(chatId, IdMax)),
                  timestamp |-> OrNow(bubbles[Len(bubbles)].timestamp, t),
                  type |-> "chat", messageCount |-> Len(bubbles) ] >>

\* the logs of the global store (lines 131-178)
globalLogs(t) ==
    IF globalDb.state # "ok" THEN <<>>
    ELSE LET chatIds == chatIdsFrom(globalDb.bubbleRows, <<>>)
         IN  Concat([i \in 1..Len(chatIds) |-> globalLogOf(chatIds[i], globalDb.bubbleRows, t)])

\* the handle of the global store is closed at line 174 only when nothing threw after
\* line 133; a store without the cursorDiskKV table makes prepare() throw at line 135
LogsGlobalLeak == IF globalDb.state = "notable" THEN {GlobalHandle} ELSE {}

\* lines 198-206
chatLogsOf(entry) ==
    [i \in 1..Len(entry.chatdata.items) |->
        LET tab == entry.chatdata.items[i]
        IN  [ id |-> tab.id, workspaceId |-> entry.name,
              title |-> Or(tab.title, ChatPrefix \o Substring(tab.id, IdMax)),
              timestamp |-> tab.timestamp,
              type |-> "chat", messageCount |-> tab.count ]]

\* lines 215-223; t is Date.now()
composerLogsOf(entry, t) ==
    [i \in 1..Len(entry.composerData.items) |->
        LET composer == entry.composerData.items[i]
        IN  [ id |-> composer.composerId, workspaceId |-> entry.name,
              title |-> Or(composer.text, ComposerPrefix \o Substring(composer.composerId, IdMax)),
              timestamp |-> OrNow(composer.lastUpdatedAt, OrNow(composer.createdAt, t)),
              type |-> "composer", messageCount |-> composer.count ]]

\* the comparator of line 231, (a, b) => b.timestamp - a.timestamp; sort takes a
\* result of NaN for +0
compareLogs(a, b) ==
    IF a.timestamp = NaN \/ b.timestamp = NaN THEN 0 ELSE b.timestamp - a.timestamp

RECURSIVE runEnd(_, _, _)
\* the last index of the run that starts at index 1 and reaches index k - 1: a run
\* that descends goes on while an element compares below its predecessor, another
\* run while it does not
runEnd(a, k, descending) ==
    IF k > Len(a) THEN Len(a)
    ELSE IF (compareLogs(a[k], a[k - 1]) < 0) = descending THEN runEnd(a, k + 1, descending)
    ELSE k - 1

\* the array with its first n elements reversed
reverseRun(a, n) == [i \in 1..Len(a) |-> IF i <= n THEN a[n + 1 - i] ELSE a[i]]

RECURSIVE searchPlace(_, _, _, _)
\* binary search of the place of pivot among a[left..right - 1]
searchPlace(a, pivot, left, right) ==
    IF left >= right THEN left
    ELSE LET mid == left + ((right - left) \div 2)
         IN  IF compareLogs(pivot, a[mid]) < 0 THEN searchPlace(a, pivot, left, mid)
             ELSE searchPlace(a, pivot, mid + 1, right)

RECURSIVE insertFrom(_, _)
\* binary insertion of a[start], a[start + 1], ... into the sorted part before them
insertFrom(a, start) ==
    IF start > Len(a) THEN a
    ELSE LET place == searchPlace(a, a[start], 1, start)
             moved == [i \in 1..Len(a) |->
                          IF i < place \/ i > start THEN a[i]
                          ELSE IF i = place THEN a[start]
                          ELSE a[i - 1]]
         IN  insertFrom(moved, start + 1)

\* logs.sort(...) (line 231) as the engine sorts an array shorter than 64: the
\* leading run is found, reversed when it descends, and the rest is inserted
SortLogs(logs) ==
    IF Len(logs) < 2 THEN logs
    ELSE LET descending == compareLogs(logs[2], logs[1]) < 0
             run == runEnd(logs, 3, descending)
         IN  insertFrom(IF descending THEN reverseRun(logs, run) ELSE logs, run + 1)

LogsFailure == [status |-> 500, body |-> <<>>]

LogsRequest ==
    /\ pc = "idle"
    /\ pc' = "global"
    /\ req' = [handler |-> "logs", id |-> <<>>]
    /\ UNCHANGED <<rootOk, dirs, globalDb, now, open, loc, resp>>

\* lines 125-181: the global store is read, then readdir is awaited
LogsGlobal ==
    /\ pc = "global" /\ req.handler = "logs"
    /\ loc' = [logs |-> globalLogs(now), i |-> 1]
    /\ open' = open \cup LogsGlobalLeak
    /\ pc' = "readdir"
    /\ UNCHANGED <<rootOk, dirs, globalDb, now, req, resp>>

\* faulty variant: the failure carries the logs gathered so far
LogsRootUnavailable_partial ==
    /\ pc = "readdir" /\ req.handler = "logs"
    /\ ~rootOk
    /\ resp' = [status |-> 500, body |-> loc.logs]
    /\ pc' = "done"
    /\ UNCHANGED <<rootOk, dirs, globalDb, now, req, open, loc>>

\* line 181 and lines 233-236: readdir throws
LogsRootUnavailable ==
    /\ pc = "readdir" /\ req.handler = "logs"
    /\ ~rootOk
    /\ resp' = LogsFailure
    /\ pc' = "done"
    /\ UNCHANGED <<rootOk, dirs, globalDb, now, req, open, loc>>

LogsReaddir ==
    /\ pc = "readdir" /\ req.handler = "logs"
    /\ rootOk
    /\ pc' = "entries"
    /\ UNCHANGED <<rootOk, dirs, globalDb, now, req, open, loc, resp>>

\* lines 183-186: an entry that is no directory or has no store file is passed over
LogsSkipEntry ==
    /\ pc = "entries" /\ req.handler = "logs"
    /\ loc.i <= Len(dirs)
    /\ ~dirs[loc.i].isDirectory \/ ~dirs[loc.i].hasDb
    /\ loc' = [loc EXCEPT !.i = @ + 1]
    /\ UNCHANGED <<rootOk, dirs, globalDb, now, pc, req, open, resp>>

\* lines 187-192: workspace.json is read and the workspace's store is opened
LogsOpenEntry ==
    /\ pc = "entries" /\ req.handler = "logs"
    /\ loc.i <= Len(dirs)
    /\ dirs[loc.i].isDirectory /\ dirs[loc.i].hasDb
    /\ open' = open \cup {dirs[loc.i].name}
    /\ pc' = "store"
    /\ UNCHANGED <<rootOk, dirs, globalDb, now, req, loc, resp>>

\* lines 194-227 when a value is not JSON: JSON.parse throws at line 196 or 213, the
\* catch of line 233 answers, and db.close() of line 227 is not reached
LogsEntryThrows ==
    /\ pc = "store" /\ req.handler = "logs"
    /\ dirs[loc.i].chatdata.kind = "bad" \/ dirs[loc.i].composerData.kind = "bad"
    /\ resp' = LogsFailure
    /\ pc' = "done"
    /\ UNCHANGED <<rootOk, dirs, globalDb, now, req, open, loc>>

\* lines 194-227: the logs of the workspace are added and its store is closed
LogsEntry ==
    /\ pc = "store" /\ req.handler = "logs"
    /\ dirs[loc.i].chatdata.kind # "bad" /\ dirs[loc.i].composerData.kind # "bad"
    /\ loc' = [loc EXCEPT !.i = @ + 1,
                          !.logs = @ \o chatLogsOf(dirs[loc.i]) \o composerLogsOf(dirs[loc.i], now)]
    /\ open' = open \ {dirs[loc.i].name}
    /\ pc' = "entries"
    /\ UNCHANGED <<rootOk, dirs, globalDb, now, req, resp>>

\* lines 230-232
LogsRespond ==
    /\ pc = "entries" /\ req.handler = "logs"
    /\ loc.i > Len(dirs)
    /\ resp' = [status |-> 200, body |-> SortLogs(loc.logs)]
    /\ pc' = "done"
    /\ UNCHANGED <<rootOk, dirs, globalDb, now, req, open, loc>>

----------------------------------------------------------------------------
(* The workspace listing: GET of part_001, lines 8-74 *)

WorkspacesRequest == Request("workspaces", <<>>)

\* line 13 and lines 70-73
WorkspacesRootUnavailable ==
    /\ pc = "readdir" /\ req.handler = "workspaces"
    /\ ~rootOk
    /\ resp' = Failure
    /\ pc' = "done"
    /\ UNCHANGED <<rootOk, dirs, globalDb, now, req, open, loc>>

WorkspacesReaddir ==
    /\ pc = "readdir" /\ req.handler = "workspaces"
    /\ rootOk
    /\ loc' = [workspaces |-> <<>>, i |-> 1]
    /\ pc' = "entries"
    /\ UNCHANGED <<rootOk, dirs, globalDb, now, req, open, resp>>

\* lines 16-24
WorkspacesSkipEntry ==
    /\ pc = "entries" /\ req.handler = "workspaces"
    /\ loc.i <= Len(dirs)
    /\ ~dirs[loc.i].isDirectory \/ ~dirs[loc.i].hasDb
    /\ loc' = [loc EXCEPT !.i = @ + 1]
    /\ UNCHANGED <<rootOk, dirs, globalDb, now, pc, req, open, resp>>

\* chatCount (lines 36-44): chatData.tabs?.length || 0, 0 when the value is not JSON
chatCountOf(entry) == IF entry.chatdata.kind = "object" THEN Len(entry.chatdata.items) ELSE 0

\* lines 26-65: the store is opened, read and closed at once (lines 28-33)
WorkspacesEntry ==
    /\ pc = "entries" /\ req.handler = "workspaces"
    /\ loc.i <= Len(dirs)
    /\ dirs[loc.i].isDirectory /\ dirs[loc.i].hasDb
    /\ loc' = [loc EXCEPT !.i = @ + 1,
                          !.workspaces = Append(@,
                              [ id |-> dirs[loc.i].name,
                                folder |-> IF dirs[loc.i].hasJson /\ dirs[loc.i].jsonOk
                                           THEN dirs[loc.i].folder ELSE <<>>,
                                lastModified |-> dirs[loc.i].mtime,
                                chatCount |-> chatCountOf(dirs[loc.i]) ])]
    /\ UNCHANGED <<rootOk, dirs, globalDb, now, pc, req, open, resp>>

\* line 69
WorkspacesRespond ==
    /\ pc = "entries" /\ req.handler = "workspaces"
    /\ loc.i > Len(dirs)
    /\ resp' = [status |-> 200, body |-> loc.workspaces]
    /\ pc' = "done"
    /\ UNCHANGED <<rootOk, dirs, globalDb, now, req, open, loc>>

----------------------------------------------------------------------------
(* The log and workspace listings over two workspaces with legacy data *)

ChatdataPool ==
    { NoValue, BadValue,
      Items(<<Tab(TabOne, OldChat, 1, 2), Tab(TabTwo, <<>>, NaN, 0)>>) }

ComposerDataPool ==
    { NoValue, BadValue, Items(<<LegacyComposer(LegacyOne, <<>>, 0, 0, 1)>>) }

\* a workspace directory with the values of its store
LegacyDir(name, hasJson, hasDb, chatdata, composerData) ==
    [Dir(name, hasJson, TRUE, FolderP1, hasDb, 1) EXCEPT !.chatdata = chatdata, !.composerData = composerData]

GlobalPool ==
    { GlobalMissing, GlobalNoTable,
      GlobalStore(<< Bubble(ComposerA, "b1", Hello, 2, <<>>),
                     Bubble(ComposerA, "b2", World, 1, <<>>),
                     [Bubble(ComposerB, "b3", <<>>, 0, <<>>) EXCEPT !.kind = "scalar"] >>,
                  <<>>, <<>>, <<>>) }

InitListings ==
    /\ InitRequest
    /\ \E hasJson1, hasDb1, hasDb2 \in BOOLEAN, chat1, chat2 \in ChatdataPool,
          composer1, composer2 \in ComposerDataPool :
          /\ (~hasDb1 => (chat1 = NoValue /\ composer1 = NoValue))
          /\ (~hasDb2 => (chat2 = NoValue /\ composer2 = NoValue))
          /\ dirs = << LegacyDir(W1, hasJson1, hasDb1, chat1, composer1),
                       LegacyDir(W2, TRUE, hasDb2, chat2, composer2) >>
    /\ globalDb \in GlobalPool
    /\ rootOk \in IF globalDb.state = "missing" THEN BOOLEAN ELSE {TRUE}

NextListings ==
    \/ LogsRequest
    \/ LogsGlobal
    \/ LogsRootUnavailable
    \/ LogsReaddir
    \/ LogsSkipEntry
    \/ LogsOpenEntry
    \/ LogsEntryThrows
    \/ LogsEntry
    \/ LogsRespond
    \/ WorkspacesRequest
    \/ WorkspacesRootUnavailable
    \/ WorkspacesReaddir
    \/ WorkspacesSkipEntry
    \/ WorkspacesEntry
    \/ WorkspacesRespond

SpecListings == InitListings /\ [][NextListings]_vars

----------------------------------------------------------------------------
(* The four listings over one storage, with a root that may be unreadable *)

InitQueries ==
    /\ InitRequest
    /\ \E hasJson1, hasDb1, hasDb2 \in BOOLEAN, chat1, chat2 \in ChatdataPool,
          composer1, composer2 \in ComposerDataPool :
          /\ (~hasDb1 => (chat1 = NoValue /\ composer1 = NoValue))
          /\ (~hasDb2 => (chat2 = NoValue /\ composer2 = NoValue))
          /\ dirs = << LegacyDir(W1, hasJson1, hasDb1, chat1, composer1),
                       LegacyDir(W2, TRUE, hasDb2, chat2, composer2) >>
    /\ globalDb \in GlobalPool
    /\ rootOk \in BOOLEAN

NextQueries ==
    \/ NextProjects
    \/ NextTabs
    \/ NextListings

SpecQueries == InitQueries /\ [][NextQueries]_vars

----------------------------------------------------------------------------
(* The diff formatter over payloads that keep the order of their fields *)

\* a payload has at most this many fields
MaxFields == 3

\* action.key of a parsed payload: the value of the last field of that name, and
\* undefined (here the empty string) when there is none
Field(payload, key) ==
    LET at == {i \in 1..Len(payload) : payload[i].key = key}
    IN  IF at = {} THEN <<>> ELSE payload[CHOOSE i \in at : \A j \in at : j <= i].value

\* the object JSON.parse builds from a payload of string fields (line 410)
actionOf(payload) ==
    [ EmptyAction EXCEPT !.filePath = Field(payload, "filePath"),
                         !.command = Field(payload, "command"),
                         !.searchResults = Field(payload, "searchResults"),
                         !.webResults = Field(payload, "webResults"),
                         !.toolName = Field(payload, "toolName"),
                         !.gitStatus = Field(payload, "gitStatus"),
                         !.directoryListed = Field(payload, "directoryListed") ]

\* the place of each string field among the sections of ToolActionSections
SectionIndex ==
    [ filePath |-> 2, command |-> 3, searchResults |-> 4, webResults |-> 5, toolName |-> 6,
      gitStatus |-> 9, directoryListed |-> 10 ]

\* faulty variant: the sections come in the order of the payload's fields
diffTextOf_payloadOrder(payload) ==
    Concat([i \in 1..Len(payload) |->
        ToolActionSections(actionOf(payload))[SectionIndex[payload[i].key]]])

\* diffText of a stored diff (line 597)
diffTextOf(payload) == formatToolAction(actionOf(payload))

FormatKeys == DOMAIN SectionIndex

\* the value each field has in the payloads tried
FieldValue ==
    [ filePath |-> SrcFile, command |-> World, searchResults |-> Hello, webResults |-> MoreText,
      toolName |-> NameN, gitStatus |-> GitM, directoryListed |-> NameZz ]

\* the payloads of up to MaxFields different fields, in every order
Payloads ==
    { [i \in DOMAIN keys |-> [key |-> keys[i], value |-> FieldValue[keys[i]]]] :
        keys \in { k \in UNION {[1..n -> FormatKeys] : n \in 0..MaxFields} :
                     \A i, j \in DOMAIN k : i # j => k[i] # k[j] } }

\* two payloads with the same fields and values
InitFormat ==
    /\ now = MaxTime
    /\ pc = "idle"
    /\ req = [handler |-> "none", id |-> <<>>]
    /\ open = {}
    /\ resp = NoResponse
    /\ rootOk = TRUE
    /\ dirs = <<>>
    /\ globalDb = GlobalMissing
    /\ \E p, q \in Payloads :
          /\ {p[i] : i \in DOMAIN p} = {q[i] : i \in DOMAIN q}
          /\ loc = [first |-> p, second |-> q]

\* lines 595-605: each is formatted
FormatDiffs ==
    /\ pc = "idle" /\ "first" \in DOMAIN loc
    /\ resp' = [status |-> 200, body |-> <<diffTextOf(loc.first), diffTextOf(loc.second)>>]
    /\ pc' = "done"
    /\ UNCHANGED <<rootOk, dirs, globalDb, now, req, open, loc>>

NextFormat == FormatDiffs

SpecFormat == InitFormat /\ [][NextFormat]_vars

----------------------------------------------------------------------------
(* Text extraction over bubble payloads of every shape *)

\* a code block of a bubble
CodeBlock(language, content) == [language |-> language, content |-> content]

\* richText that is not JSON, and richText that parses to an object without root
BadRichText == [kind |-> "bad", children |-> <<>>]
RootlessRichText == [kind |-> "noroot", children |-> <<>>]

\* a decoded bubble object; textType is typeof bubble.text
BubblePayload(textType, text, richText, codeBlocks) ==
    [ chat |-> ComposerA, id |-> "b1", kind |-> "object", textType |-> textType,
      text |-> text, richText |-> richText, codeBlocks |-> codeBlocks, timestamp |-> 0,
      relevantFiles |-> <<>>, attachedFileCodeChunksUris |-> <<>>, fileSelections |-> <<>> ]

\* a call of extractTextFromBubble threw
Thrown == [status |-> 500, body |-> <<>>]

\* what a call of extractTextFromBubble comes to: bubble.text.trim() at line 185 is
\* a TypeError when text is a number other than 0, outside the try of lines 191-198
extractionOf(bubble) ==
    IF bubble.textType = "number" THEN Thrown
    ELSE [status |-> 200, body |-> extractTextFromBubble(bubble)]

TextFieldPool ==
    { <<"undefined", <<>>>>, <<"string", Blank>>, <<"string", Hello>>, <<"number", <<>>>> }

RichTextPool ==
    { [kind |-> "none", children |-> <<>>], BadRichText, RootlessRichText,
      [kind |-> "tree", children |-> <<TextNode(World)>>],
      [kind |-> "tree", children |-> <<TextNode(<<" ">>)>>],
      [kind |-> "tree", children |->
          << TreeNode("paragraph", <<TextNode(Hello), TreeNode("code", <<TextNode(SrcFile)>>)>>),
             TextNode(World) >>] }

CodeBlocksPool ==
    { <<>>, <<CodeBlock(<<>>, Hello)>>,
      <<CodeBlock(<<"t", "s">>, <<>>), CodeBlock(<<"t", "s">>, SrcFile)>> }

InitExtract ==
    /\ now = MaxTime
    /\ pc = "idle"
    /\ req = [handler |-> "none", id |-> <<>>]
    /\ open = {}
    /\ resp = NoResponse
    /\ rootOk = TRUE
    /\ dirs = <<>>
    /\ globalDb = GlobalMissing
    /\ \E t \in TextFieldPool, richText \in RichTextPool, codeBlocks \in CodeBlocksPool :
          loc = [bubble |-> BubblePayload(t[1], t[2], richText, codeBlocks)]

\* line 516: the text of a bubble is extracted
ExtractText ==
    /\ pc = "idle" /\ "bubble" \in DOMAIN loc
    /\ resp' = extractionOf(loc.bubble)
    /\ pc' = "done"
    /\ UNCHANGED <<rootOk, dirs, globalDb, now, req, open, loc>>

NextExtract == ExtractText

SpecExtract == InitExtract /\ [][NextExtract]_vars

----------------------------------------------------------------------------
(* Two queries in flight in one server process: every handler invocation has
   its own locals (part_002 lines 147-149, part_003 lines 356-359, route.ts
   lines 125-127); here pc, req, open, loc and resp hold one value per query *)

Queries == 1..2

\* the locals of an invocation: const projects = [] (part_002 line 149),
\* const logs = [] (route.ts line 127), the entries and the conversation map
QueryLocals ==
    [ i |-> 0, workspaceEntries |-> <<>>, conversationMap |-> EmptyMap,
      projects |-> <<>>, logs |-> <<>> ]

\* a new invocation of a handler; what an earlier invocation held is not carried over
QueryRequest(p) ==
    /\ pc[p] \in {"idle", "done"}
    /\ \E handler \in {"projects", "tabs", "logs"}, id \in RequestIds :
          /\ (handler # "tabs" => id = W1)
          /\ req' = [req EXCEPT ![p] = [handler |-> handler, id |-> id]]
          /\ pc' = [pc EXCEPT ![p] = IF handler = "logs" THEN "global" ELSE "readdir"]
    /\ loc' = [loc EXCEPT ![p] = QueryLocals]
    /\ resp' = [resp EXCEPT ![p] = NoResponse]
    /\ UNCHANGED <<rootOk, dirs, globalDb, now, open>>

\* part_002 lines 147-279
QueryProjectsScan(p) ==
    /\ pc[p] = "readdir" /\ req[p].handler = "projects"
    /\ IF ~rootOk
       THEN /\ resp' = [resp EXCEPT ![p] = Failure]
            /\ pc' = [pc EXCEPT ![p] = "done"]
            /\ UNCHANGED <<open, loc>>
       ELSE LET workspaceEntries == workspaceEntriesOf(dirs)
            IN  /\ loc' = [loc EXCEPT ![p] =
                              [ QueryLocals EXCEPT
                                  !.workspaceEntries = workspaceEntries,
                                  !.conversationMap = ProjectsConversationMap(workspaceEntries),
                                  !.i = 1 ]]
                /\ open' = [open EXCEPT ![p] = @ \cup ProjectsGlobalLeak]
                /\ pc' = [pc EXCEPT ![p] = "entries"]
                /\ UNCHANGED resp
    /\ UNCHANGED <<rootOk, dirs, globalDb, now, req>>

\* part_002 lines 282-310
QueryProjectsEntry(p) ==
    /\ pc[p] = "entries" /\ req[p].handler = "projects"
    /\ loc[p].i <= Len(loc[p].workspaceEntries)
    /\ LET entry == loc[p].workspaceEntries[loc[p].i]
       IN  IF ~entry.hasDb
           THEN /\ resp' = [resp EXCEPT ![p] = Failure]
                /\ pc' = [pc EXCEPT ![p] = "done"]
                /\ UNCHANGED loc
           ELSE /\ loc' = [loc EXCEPT ![p].i = @ + 1,
                                      ![p].projects = Append(@, ProjectOf(entry, loc[p].conversationMap))]
                /\ UNCHANGED <<pc, resp>>
    /\ UNCHANGED <<rootOk, dirs, globalDb, now, req, open>>

\* part_002 lines 312-315
QueryProjectsRespond(p) ==
    /\ pc[p] = "entries" /\ req[p].handler = "projects"
    /\ loc[p].i > Len(loc[p].workspaceEntries)
    /\ resp' = [resp EXCEPT ![p] = [status |-> 200, body |-> SortProjects(loc[p].projects)]]
    /\ pc' = [pc EXCEPT ![p] = "done"]
    /\ UNCHANGED <<rootOk, dirs, globalDb, now, req, open, loc>>

\* part_003 lines 365 and 638-643
QueryTabsRootUnavailable(p) ==
    /\ pc[p] = "readdir" /\ req[p].handler = "tabs"
    /\ ~rootOk
    /\ resp' = [resp EXCEPT ![p] = Failure]
    /\ pc' = [pc EXCEPT ![p] = "done"]
    /\ UNCHANGED <<rootOk, dirs, globalDb, now, req, open, loc>>

\* part_003 lines 384 and 629-631
QueryTabsGlobalMissing(p) ==
    /\ pc[p] = "readdir" /\ req[p].handler = "tabs"
    /\ rootOk /\ globalDb.state = "missing"
    /\ resp' = [resp EXCEPT ![p] = [status |-> 404, body |-> <<>>]]
    /\ pc' = [pc EXCEPT ![p] = "done"]
    /\ UNCHANGED <<rootOk, dirs, globalDb, now, req, open, loc>>

\* part_003 lines 365-385
QueryTabsOpen(p) ==
    /\ pc[p] = "readdir" /\ req[p].handler = "tabs"
    /\ rootOk /\ globalDb.state # "missing"
    /\ open' = [open EXCEPT ![p] = @ \cup {GlobalHandle}]
    /\ loc' = [loc EXCEPT ![p].workspaceEntries = workspaceEntriesOf(dirs)]
    /\ pc' = [pc EXCEPT ![p] = "scan"]
    /\ UNCHANGED <<rootOk, dirs, globalDb, now, req, resp>>

\* part_003 lines 388 and 638-643
QueryTabsScanFails(p) ==
    /\ pc[p] = "scan" /\ req[p].handler = "tabs"
    /\ globalDb.state = "notable"
    /\ open' = [open EXCEPT ![p] = @ \ {GlobalHandle}]
    /\ resp' = [resp EXCEPT ![p] = Failure]
    /\ pc' = [pc EXCEPT ![p] = "done"]
    /\ UNCHANGED <<rootOk, dirs, globalDb, now, req, loc>>

\* part_003 lines 387-637; the clock stands still while the two queries run
QueryTabsAssemble(p) ==
    /\ pc[p] = "scan" /\ req[p].handler = "tabs"
    /\ globalDb.state = "ok"
    /\ resp' = [resp EXCEPT ![p] =
                   [ status |-> 200,
                     body |-> tabsOf(req[p].id, loc[p].workspaceEntries, now, now) ]]
    /\ open' = [open EXCEPT ![p] = @ \ {GlobalHandle}]
    /\ pc' = [pc EXCEPT ![p] = "done"]
    /\ UNCHANGED <<rootOk, dirs, globalDb, now, req, loc>>

\* route.ts lines 125-181
QueryLogsGlobal(p) ==
    /\ pc[p] = "global" /\ req[p].handler = "logs"
    /\ loc' = [loc EXCEPT ![p].logs = globalLogs(now), ![p].i = 1]
    /\ open' = [open EXCEPT ![p] = @ \cup LogsGlobalLeak]
    /\ pc' = [pc EXCEPT ![p] = "readdir"]
    /\ UNCHANGED <<rootOk, dirs, globalDb, now, req, resp>>

\* route.ts line 181 and lines 233-236
QueryLogsRootUnavailable(p) ==
    /\ pc[p] = "readdir" /\ req[p].handler = "logs"
    /\ ~rootOk
    /\ resp' = [resp EXCEPT ![p] = LogsFailure]
    /\ pc' = [pc EXCEPT ![p] = "done"]
    /\ UNCHANGED <<rootOk, dirs, globalDb, now, req, open, loc>>

\* route.ts line 181
QueryLogsReaddir(p) ==
    /\ pc[p] = "readdir" /\ req[p].handler = "logs"
    /\ rootOk
    /\ pc' = [pc EXCEPT ![p] = "entries"]
    /\ UNCHANGED <<rootOk, dirs, globalDb, now, req, open, loc, resp>>

\* route.ts lines 183-186
QueryLogsSkipEntry(p) ==
    /\ pc[p] = "entries" /\ req[p].handler = "logs"
    /\ loc[p].i <= Len(dirs)
    /\ ~dirs[loc[p].i].isDirectory \/ ~dirs[loc[p].i].hasDb
    /\ loc' = [loc EXCEPT ![p].i = @ + 1]
    /\ UNCHANGED <<rootOk, dirs, globalDb, now, pc, req, open, resp>>

\* route.ts lines 187-192
QueryLogsOpenEntry(p) ==
    /\ pc[p] = "entries" /\ req[p].handler = "logs"
    /\ loc[p].i <= Len(dirs)
    /\ dirs[loc[p].i].isDirectory /\ dirs[loc[p].i].hasDb
    /\ open' = [open EXCEPT ![p] = @ \cup {dirs[loc[p].i].name}]
    /\ pc' = [pc EXCEPT ![p] = "store"]
    /\ UNCHANGED <<rootOk, dirs, globalDb, now, req, loc, resp>>

\* route.ts lines 194-227 when JSON.parse throws
QueryLogsEntryThrows(p) ==
    /\ pc[p] = "store" /\ req[p].handler = "logs"
    /\ dirs[loc[p].i].chatdata.kind = "bad" \/ dirs[loc[p].i].composerData.kind = "bad"
    /\ resp' = [resp EXCEPT ![p] = LogsFailure]
    /\ pc' = [pc EXCEPT ![p] = "done"]
    /\ UNCHANGED <<rootOk, dirs, globalDb, now, req, open, loc>>

\* faulty variant: logs is one array of the module, shared by every invocation
QueryLogsEntry_sharedLogs(p) ==
    /\ pc[p] = "store" /\ req[p].handler = "logs"
    /\ dirs[loc[p].i].chatdata.kind # "bad" /\ dirs[loc[p].i].composerData.kind # "bad"
    /\ loc' = [q \in Queries |->
                  [loc[q] EXCEPT !.i = IF q = p THEN @ + 1 ELSE @,
                                 !.logs = @ \o chatLogsOf(dirs[loc[p].i])
                                            \o composerLogsOf(dirs[loc[p].i], now)]]
    /\ open' = [open EXCEPT ![p] = @ \ {dirs[loc[p].i].name}]
    /\ pc' = [pc EXCEPT ![p] = "entries"]
    /\ UNCHANGED <<rootOk, dirs, globalDb, now, req, resp>>

\* route.ts lines 194-227: logs.push on the array of this invocation, db.close()
\* on the handle this invocation opened
QueryLogsEntry(p) ==
    /\ pc[p] = "store" /\ req[p].handler = "logs"
    /\ dirs[loc[p].i].chatdata.kind # "bad" /\ dirs[loc[p].i].composerData.kind # "bad"
    /\ loc' = [loc EXCEPT ![p].i = @ + 1,
                          ![p].logs = @ \o chatLogsOf(dirs[loc[p].i])
                                        \o composerLogsOf(dirs[loc[p].i], now)]
    /\ open' = [open EXCEPT ![p] = @ \ {dirs[loc[p].i].name}]
    /\ pc' = [pc EXCEPT ![p] = "entries"]
    /\ UNCHANGED <<rootOk, dirs, globalDb, now, req, resp>>

\* route.ts lines 230-232
QueryLogsRespond(p) ==
    /\ pc[p] = "entries" /\ req[p].handler = "logs"
    /\ loc[p].i > Len(dirs)
    /\ resp' = [resp EXCEPT ![p] = [status |-> 200, body |-> SortLogs(loc[p].logs)]]
    /\ pc' = [pc EXCEPT ![p] = "done"]
    /\ UNCHANGED <<rootOk, dirs, globalDb, now, req, open, loc>>

\* the stores of a workspace directory: none, one with both lists, one with a
\* value that is not JSON
StorePool ==
    { <<FALSE, NoValue, NoValue>>,
      <<TRUE, Items(<<Tab(TabOne, OldChat, 1, 2)>>), Items(<<LegacyComposer(LegacyOne, <<>>, 0, 0, 1)>>)>>,
      <<TRUE, BadValue, NoValue>> }

GlobalConcurrentPool ==
    { GlobalMissing, GlobalNoTable,
      GlobalStore(<< Bubble(ComposerA, "b1", Hello, 2, <<>>) >>,
                  << Composer(ComposerA, NameN, <<Header("b1", 1)>>, <<PathInP1>>, <<>>) >>,
                  <<>>, <<>>) }

InitConcurrent ==
    /\ now = MaxTime
    /\ pc = [p \in Queries |-> "idle"]
    /\ req = [p \in Queries |-> [handler |-> "none", id |-> <<>>]]
    /\ open = [p \in Queries |-> {}]
    /\ loc = [p \in Queries |-> QueryLocals]
    /\ resp = [p \in Queries |-> NoResponse]
    /\ \E store1, store2 \in StorePool :
          dirs = << LegacyDir(W1, TRUE, store1[1], store1[2], store1[3]),
                    LegacyDir(W2, TRUE, store2[1], store2[2], store2[3]) >>
    /\ globalDb \in GlobalConcurrentPool
    /\ rootOk \in BOOLEAN

NextConcurrent ==
    \E p \in Queries :
        \/ QueryRequest(p)
        \/ QueryProjectsScan(p)
        \/ QueryProjectsEntry(p)
        \/ QueryProjectsRespond(p)
        \/ QueryTabsRootUnavailable(p)
        \/ QueryTabsGlobalMissing(p)
        \/ QueryTabsOpen(p)
        \/ QueryTabsScanFails(p)
        \/ QueryTabsAssemble(p)
        \/ QueryLogsGlobal(p)
        \/ QueryLogsRootUnavailable(p)
        \/ QueryLogsReaddir(p)
        \/ QueryLogsSkipEntry(p)
        \/ QueryLogsOpenEntry(p)
        \/ QueryLogsEntryThrows(p)
        \/ QueryLogsEntry(p)
        \/ QueryLogsRespond(p)

SpecConcurrent == InitConcurrent /\ [][NextConcurrent]_vars

----------------------------------------------------------------------------

(* Request contexts: one conversation of project W1 with two turns and up to
   two contexts of its own, and a context of another conversation *)

TermPath == <<"t", ".", "s", "h">>
SrcDir == <<"s", "r", "c">>
FileATs == <<"a", ".", "t", "s">>
TypeFile == <<"f", "i", "l", "e">>
RuleR1 == <<"r", "1">>
IdC9 == <<"c", "9">>

\* a context row of conversation A for a bubble, with the listed sections present
SectionContext(id, bubbleId, git, terminal, folders, rules, related) ==
    [ Context(ComposerA, id, bubbleId, <<>>, git) EXCEPT
        !.terminalFiles = terminal,
        !.attachedFoldersListDirResults = folders,
        !.cursorRules = rules,
        !.summarizedComposers = related ]

FoldersPool ==
    { <<>>,
      <<[path |-> SrcDir, files |-> <<[name |-> FileATs, type |-> TypeFile]>>]>>,
      <<[path |-> SrcDir, files |-> <<>>]>> }

RulesPool == { <<>>, <<[name |-> RuleR1, description |-> <<>>]>> }

RelatedPool == { <<>>, <<[name |-> <<>>, composerId |-> IdC9]>> }

\* the second context: no section, one, two, or all five
SecondContextPool ==
    { SectionContext("x2", bubbleId, c[1], c[2], c[3], c[4], c[5]) :
        bubbleId \in {"b1", "b2", "b9"},
        c \in { <<<<>>, <<>>, <<>>, <<>>, <<>>>>,
                <<GitM, <<>>, <<>>, <<>>, <<>>>>,
                <<<<>>, <<TermPath>>, <<>>, <<[name |-> RuleR1, description |-> <<>>]>>, <<>>>>,
                <<GitM, <<TermPath>>,
                  <<[path |-> SrcDir, files |-> <<[name |-> FileATs, type |-> TypeFile]>>]>>,
                  <<[name |-> RuleR1, description |-> <<>>]>>,
                  <<[name |-> <<>>, composerId |-> IdC9]>>>> } }

InitContexts ==
    /\ InitRequest
    /\ dirs = TwoWorkspaces
    /\ \/ globalDb \in {GlobalMissing, GlobalNoTable}
       \/ \E bubbleId \in {"b1", "b2"}, git \in {<<>>, GitM},
             terminal \in {<<>>, <<TermPath>>}, folders \in FoldersPool,
             rules \in RulesPool, related \in RelatedPool, second \in SecondContextPool :
             globalDb = GlobalStore(
                 << Bubble(ComposerA, "b1", Hello, 1, <<>>),
                    Bubble(ComposerA, "b2", World, 2, <<>>) >>,
                 << Composer(ComposerA, NameN, <<Header("b1", 1), Header("b2", 2)>>,
                             <<PathInP1>>, <<>>) >>,
                 <<>>,
                 << SectionContext("x1", bubbleId, git, terminal, folders, rules, related),
                    Context(ComposerB, "x3", "b1", <<>>, GitM),
                    second >>)
    /\ rootOk \in IF globalDb.state = "missing" THEN BOOLEAN ELSE {TRUE}

SpecContexts == InitContexts /\ [][NextTabs]_vars

----------------------------------------------------------------------------

(* Attribution by file path: one conversation whose only evidence is file paths,
   over workspaces whose folders may contain one another *)

FolderW == <<"f", "i", "l", "e", ":", "/", "/", "/", "w">>
FolderWP == <<"f", "i", "l", "e", ":", "/", "/", "/", "w", "/", "p">>
UriInP1 == <<"f", "i", "l", "e", ":", "/", "/", "/", "U", "s", "e", "r", "s", "/", "e", "v",
    "a", "r", "a", "n", "/", "p", "1", "/", "a">>

\* file paths as stored: plain, under the home directory, with and without scheme
PathPool == { PathInP1, PathInP2, UriInP1, UriInP2, PathNowhere }

InitAttribution ==
    /\ InitRequest
    /\ \E folder1 \in {FolderP1, FolderW, FolderWP}, w2HasDb \in BOOLEAN, w1First \in BOOLEAN :
          LET w1 == Dir(W1, TRUE, TRUE, folder1, TRUE, 2)
              w2 == Dir(W2, TRUE, TRUE, FolderP2, w2HasDb, 1)
          IN  dirs = IF w1First THEN <<w1, w2>> ELSE <<w2, w1>>
    /\ \/ globalDb \in {GlobalMissing, GlobalNoTable}
       \/ \E created \in {<<>>} \cup {<<path>> : path \in PathPool},
             blocks \in {<<>>, <<PathInP2>>, <<UriInP2>>},
             relevant \in {<<>>, <<PathInP1>>, <<UriInP2>>} :
             globalDb = GlobalStore(
                 << Bubble(ComposerA, "b1", <<"a">>, 1, relevant) >>,
                 << Composer(ComposerA, <<>>, <<Header("b1", 1)>>, created, blocks) >>,
                 <<>>,
                 <<>>)
    /\ rootOk \in IF globalDb.state = "missing" THEN BOOLEAN ELSE {TRUE}

SpecAttribution == InitAttribution /\ [][NextProjects]_vars

----------------------------------------------------------------------------

(* Bubble keys: two conversations whose headers name the same bubble id, each
   with a bubble row of its own under bubbleId:<conversation>:b1 *)

InitBubbleKeys ==
    /\ InitRequest
    /\ dirs = TwoWorkspaces
    /\ \/ globalDb \in {GlobalMissing, GlobalNoTable}
       \/ \E text \in {Hello, FixTheBug}, timeA, timeB \in 0..MaxTime,
             otherFirst, otherStored \in BOOLEAN :
             LET own == Bubble(ComposerA, "b1", text, timeA, <<>>)
                 other == Bubble(ComposerB, "b1", World, timeB, <<>>)
             IN  globalDb = GlobalStore(
                     IF ~otherStored THEN <<own>>
                     ELSE IF otherFirst THEN <<other, own>> ELSE <<own, other>>,
                     << Composer(ComposerA, NameN, <<Header("b1", 1)>>, <<PathInP1>>, <<>>),
                        Composer(ComposerB, <<>>, <<Header("b1", 2)>>, <<PathInP2>>, <<>>) >>,
                     <<>>,
                     <<>>)
    /\ rootOk \in IF globalDb.state = "missing" THEN BOOLEAN ELSE {TRUE}

SpecBubbleKeys == InitBubbleKeys /\ [][NextTabs]_vars

----------------------------------------------------------------------------

(* The two listings over the same storage: the project listing of part_002 and
   the conversation listing of part_003 *)

NextBoth ==
    \/ NextProjects
    \/ NextTabs

SpecBoth == InitProjects /\ [][NextBoth]_vars

----------------------------------------------------------------------------

(* What the claims speak of *)

\* the composerData row of a conversation
RowOf(composerId) ==
    CHOOSE row \in {globalDb.composerRows[k] : k \in 1..Len(globalDb.composerRows)} :
        row.id = composerId

\* the four tiers of a row, over the indices built from the whole store
TiersOfRow(row) ==
    AttributionTiers(row, row.id,
        projectLayoutsMapFrom(globalDb.contextRows, EmptyMap),
        createProjectNameToWorkspaceIdMap(workspaceEntriesOf(dirs)),
        workspaceEntriesOf(dirs),
        bubbleMapFrom(globalDb.bubbleRows, EmptyMap))

\* the turns built from the headers of a row, before diff turns and the sort
HeaderTurnsOfRow(row) ==
    HeaderTurns(row, row.id, bubbleMapFrom(globalDb.bubbleRows, EmptyMap),
                messageRequestContextMapFrom(globalDb.contextRows, EmptyMap), now)

RECURSIVE FirstNonBlank(_)
\* the first of the lines that has a character other than whitespace
FirstNonBlank(lines) ==
    IF lines = <<>> THEN <<>>
    ELSE IF \E k \in 1..Len(Head(lines)) : Head(lines)[k] \notin Whitespace THEN Head(lines)
    ELSE FirstNonBlank(Tail(lines))

\* the line of the first header turn the title is derived from
ChosenLine(row) == FirstNonBlank(Split(HeaderTurnsOfRow(row)[1].text, "\n"))

TabsReturned == req.handler = "tabs" /\ pc = "done" /\ resp.status = 200

\* the project listing holds its conversation map
ProjectsScanned ==
    req.handler = "projects" /\ pc \in {"entries", "done"} /\ "conversationMap" \in DOMAIN loc

ProjectsReturned == req.handler = "projects" /\ pc = "done" /\ resp.status = 200

\* the conversation is listed under the project in the conversation map
ListedUnder(composerId, projectId) ==
    /\ projectId \in DOMAIN loc.conversationMap
    /\ \E k \in 1..Len(loc.conversationMap[projectId]) :
          loc.conversationMap[projectId][k] = composerId

ObjectRows == {k \in 1..Len(globalDb.composerRows) : globalDb.composerRows[k].kind = "object"}

----------------------------------------------------------------------------
(* The claims *)

\* C1: in every conversation the per-project listing returns, no turn has text that
\* is empty or only whitespace: a header turn whose text with its context sections
\* trims to nothing is left out, and so is a diff turn whose formatted text does.
C1_NoEmptyTurns ==
    TabsReturned =>
        \A i \in 1..Len(resp.body) : \A j \in 1..Len(resp.body[i].bubbles) :
            \E k \in 1..Len(resp.body[i].bubbles[j].text) :
                resp.body[i].bubbles[j].text[k] \notin Whitespace

\* a returned conversation one of whose headers has a whitespace-only bubble and
\* one of whose diffs formats to nothing: both are missing from its turns
C1_Witness ==
    /\ TabsReturned
    /\ \E i \in 1..Len(resp.body) :
          LET row == RowOf(resp.body[i].id)
          IN  /\ row.fullConversationHeadersOnly = <<Header("b1", 1), Header("b2", 2)>>
              /\ \E b \in 1..Len(globalDb.bubbleRows) :
                    /\ globalDb.bubbleRows[b].id = "b2"
                    /\ extractTextFromBubble(globalDb.bubbleRows[b]) = <<" ">>
              /\ \E d \in 1..Len(globalDb.diffRows) :
                    /\ globalDb.diffRows[d].chat = row.id
                    /\ globalDb.diffRows[d].action = EmptyAction
              /\ Len(resp.body[i].bubbles) = 2

\* C2: the turns of every returned conversation are non-decreasing in timestamp,
\* whatever the order of the headers.
C2_TurnsNonDecreasing ==
    TabsReturned =>
        \A i \in 1..Len(resp.body) : \A j \in 1..(Len(resp.body[i].bubbles) - 1) :
            resp.body[i].bubbles[j].timestamp <= resp.body[i].bubbles[j + 1].timestamp

\* a returned conversation whose second header's bubble is older than its first
\* header's: the turns come back in the other order
C2_Witness ==
    /\ TabsReturned
    /\ \E i \in 1..Len(resp.body) :
          /\ RowOf(resp.body[i].id).fullConversationHeadersOnly
                 = <<Header("b1", 1), Header("b2", 2)>>
          /\ Len(resp.body[i].bubbles) >= 2
          /\ resp.body[i].bubbles[1].text = World
          /\ resp.body[i].bubbles[1].timestamp < resp.body[i].bubbles[2].timestamp

\* C3: attribution tries the layout hints, the newly created files, the code-block
\* keys and the bubble file references in this order and stops at the first tier
\* that finds a project: a conversation is listed under the project of its first
\* finding tier and under no other, so a layout hint's project wins over a file
\* path of another project.
C3_TierOrder ==
    ProjectsScanned =>
        \A k \in ObjectRows :
            LET row == globalDb.composerRows[k]
                tiers == TiersOfRow(row)
            IN  \A n \in 1..4 :
                    (tiers[n] # NoProject /\ \A m \in 1..(n - 1) : tiers[m] = NoProject) =>
                        /\ ListedUnder(row.id, tiers[n])
                        /\ \A p \in DOMAIN loc.conversationMap :
                              p # tiers[n] => ~ListedUnder(row.id, p)

\* a conversation with a layout hint of project W1 and a newly created file of W2
C3_Witness ==
    /\ ProjectsScanned
    /\ \E k \in ObjectRows :
          LET row == globalDb.composerRows[k]
          IN  /\ TiersOfRow(row)[1] = W1
              /\ TiersOfRow(row)[2] = W2
              /\ ListedUnder(row.id, W1)

\* C4: a layout hint whose root path is a path of several segments ending in the
\* folder name of a known project resolves to that project: the conversation is
\* listed under the project the final segment of its first resolving hint names.
C4_LayoutFinalSegment ==
    ProjectsScanned =>
        \A k \in ObjectRows :
            LET row == globalDb.composerRows[k]
                hints == MapGet(projectLayoutsMapFrom(globalDb.contextRows, EmptyMap),
                                row.id, <<>>)
                index == createProjectNameToWorkspaceIdMap(workspaceEntriesOf(dirs))
                resolved == FirstFound([i \in 1..Len(hints) |->
                                MapGet(index, Pop(Split(hints[i], "/")), NoProject)])
            IN  resolved # NoProject => ListedUnder(row.id, resolved)

\* C5: a workspace directory whose store file is missing does not make a listing
\* fail: the query succeeds and every workspace that has its store file is in the
\* result.
C5_MissingStoreTolerated ==
    (req.handler = "projects" /\ pc = "done" /\ rootOk) =>
        /\ resp.status = 200
        /\ \A d \in 1..Len(dirs) :
              (dirs[d].isDirectory /\ dirs[d].hasJson /\ dirs[d].hasDb) =>
                  \E j \in 1..Len(resp.body) : resp.body[j].id = dirs[d].name

\* C6: the project listing has one entry for every known workspace entry, and the
\* count of an entry is the number of conversations attributed to it: 0 for a
\* project no conversation was attributed to.
C6_EveryProjectListed ==
    ProjectsReturned =>
        /\ \A d \in 1..Len(dirs) :
              (dirs[d].isDirectory /\ dirs[d].hasJson) =>
                  Cardinality({j \in 1..Len(resp.body) : resp.body[j].id = dirs[d].name}) = 1
        /\ \A j \in 1..Len(resp.body) :
              /\ \E d \in 1..Len(dirs) : dirs[d].hasJson /\ dirs[d].name = resp.body[j].id
              /\ resp.body[j].conversationCount =
                     Cardinality({k \in ObjectRows :
                         FirstFound(TiersOfRow(globalDb.composerRows[k])) = resp.body[j].id})
              /\ (\A k \in ObjectRows :
                      FirstFound(TiersOfRow(globalDb.composerRows[k])) # resp.body[j].id)
                  => resp.body[j].conversationCount = 0

\* a listing with a project of no conversation beside a project that has one
C6_Witness ==
    /\ ProjectsReturned
    /\ \E i, j \in 1..Len(resp.body) :
          resp.body[i].conversationCount = 0 /\ resp.body[j].conversationCount > 0

\* C7: the title is the stored name when there is one; else it is derived from the
\* first non-empty line of the first turn built from the headers (the line itself
\* when it is shorter than the cut); the placeholder is the last resort.  Text that
\* begins "Fix the bug", a newline and more gives exactly "Fix the bug".
C7_TitlePrecedence ==
    TabsReturned =>
        \A i \in 1..Len(resp.body) :
            LET row == RowOf(resp.body[i].id)
                title == resp.body[i].title
            IN  /\ row.name # <<>> => title = row.name
                /\ (row.name = <<>> /\ Len(ChosenLine(row)) < TitleMax) =>
                       title = ChosenLine(row)
                /\ (row.name = <<>>
                        /\ StartsWith(HeaderTurnsOfRow(row)[1].text, FixTheBug \o Newline)) =>
                       title = FixTheBug
                /\ title = ConversationPrefix \o Substring(row.id, IdMax) =>
                       (row.name = <<>> /\ ChosenLine(row) = <<>>)

\* an unnamed conversation whose first turn is "Fix the bug", a newline, "more text"
C7_Witness ==
    /\ TabsReturned
    /\ \E i \in 1..Len(resp.body) :
          /\ RowOf(resp.body[i].id).name = <<>>
          /\ StartsWith(HeaderTurnsOfRow(RowOf(resp.body[i].id))[1].text,
                        FixTheBug \o Newline \o MoreText)
          /\ resp.body[i].title = FixTheBug

\* C8: when the title is derived from the first turn and the chosen line is longer
\* than 100 characters, the title is the first 100 characters of the line followed
\* by the ellipsis.
C8_LongTitleCut ==
    TabsReturned =>
        \A i \in 1..Len(resp.body) :
            LET row == RowOf(resp.body[i].id)
            IN  (row.name = <<>> /\ Len(ChosenLine(row)) > TitleMax) =>
                    resp.body[i].title = SubSeq(ChosenLine(row), 1, TitleMax) \o Ellipsis

\* an unnamed conversation whose first line has 101 characters
C8_Witness ==
    /\ TabsReturned
    /\ \E i \in 1..Len(resp.body) :
          /\ RowOf(resp.body[i].id).name = <<>>
          /\ Len(ChosenLine(RowOf(resp.body[i].id))) = TitleMax + 1
          /\ Len(resp.body[i].title) = TitleMax + Len(Ellipsis)

\* C9: a conversation for which no tier finds a project is listed under no project,
\* the scan does not fail, and the other conversations are still listed under
\* theirs.
C9_UnattributedSkipped ==
    (req.handler = "projects" /\ pc \in {"entries", "done"} /\ rootOk) =>
        /\ ProjectsScanned
        /\ globalDb.state = "ok" =>
              \A k \in ObjectRows :
                  LET row == globalDb.composerRows[k]
                      found == FirstFound(TiersOfRow(row))
                  IN  IF found = NoProject
                      THEN \A p \in DOMAIN loc.conversationMap : ~ListedUnder(row.id, p)
                      ELSE ListedUnder(row.id, found)

\* an unattributed conversation scanned before one that is listed under W1 or W2
C9_Witness ==
    /\ ProjectsScanned
    /\ \E k, n \in ObjectRows :
          /\ k < n
          /\ FirstFound(TiersOfRow(globalDb.composerRows[k])) = NoProject
          /\ FirstFound(TiersOfRow(globalDb.composerRows[n])) # NoProject
          /\ ListedUnder(globalDb.composerRows[n].id,
                         FirstFound(TiersOfRow(globalDb.composerRows[n])))

\* C10: every storage handle a query opens is released before the query returns, on
\* every exit path, one where an error is thrown between open and close included (a
\* record read from the handle that is not JSON): when a query has completed, with
\* success or with a failure response, no handle it opened is still open
C10_HandlesReleased == pc = "done" => open = {}

\* the requested id names no directory of the storage root
UnknownId == \A d \in 1..Len(dirs) : dirs[d].name # req.id

\* C11: a request for a project id that has no matching record gets an explicit
\* not-found result: the conversation listing of an unknown id is not the successful
\* empty list a known project without conversations gets, and it is not the generic
\* failure either.
C11_UnknownIdNotFound ==
    (req.handler = "tabs" /\ pc = "done" /\ rootOk /\ globalDb.state = "ok" /\ UnknownId) =>
        /\ ~(resp.status = 200 /\ resp.body = <<>>)
        /\ resp.status # 500

\* the log listing has a log with this id for this workspace
LogListed(id, workspaceId) ==
    \E j \in 1..Len(resp.body) : resp.body[j].id = id /\ resp.body[j].workspaceId = workspaceId

\* C12: a record that is not JSON is dropped alone: the log listing still succeeds
\* and the records that parse are all in it, those of the other workspaces and the
\* other record of the same workspace included.
C12_MalformedRecordDroppedAlone ==
    (req.handler = "logs" /\ pc = "done" /\ rootOk) =>
        /\ resp.status = 200
        /\ \A d \in 1..Len(dirs) :
              (dirs[d].isDirectory /\ dirs[d].hasDb) =>
                  /\ \A k \in 1..Len(dirs[d].chatdata.items) :
                        LogListed(dirs[d].chatdata.items[k].id, dirs[d].name)
                  /\ \A k \in 1..Len(dirs[d].composerData.items) :
                        LogListed(dirs[d].composerData.items[k].composerId, dirs[d].name)

\* C13: when the storage root cannot be read, every listing fails as a whole with
\* one top-level failure and returns no list, not even the part gathered before the
\* root was read.
C13_RootUnavailableFails ==
    (pc = "done" /\ ~rootOk) => (resp.status = 500 /\ resp.body = <<>>)

\* the log listing had gathered the chats of the global store when readdir threw
C13_Witness ==
    /\ req.handler = "logs" /\ pc = "done" /\ ~rootOk
    /\ loc.logs # <<>>
    /\ resp = LogsFailure

\* the order in which the claim lists the sections of the string fields
FixedOrder == <<"filePath", "command", "searchResults", "webResults", "toolName", "gitStatus", "directoryListed">>

\* the text that opens the section of a field
SectionLabel ==
    [ filePath |-> FileLabel, command |-> CommandLabel, searchResults |-> SearchResultsLabel,
      webResults |-> WebSearchLabel, toolName |-> ToolActionSection, gitStatus |-> GitStatusOpen,
      directoryListed |-> DirectoryListedLabel ]

\* C14: the diff formatter emits the sections of the fields that are present in one
\* fixed order, whatever the order of the fields in the payload: two payloads with
\* the same fields and values give the same text, and in it the section of a field
\* earlier in the fixed order stands before the section of a later one.
C14_FormatterOrderFixed ==
    (pc = "done" /\ "first" \in DOMAIN loc) =>
        /\ resp.body[1] = resp.body[2]
        /\ \A a, b \in 1..Len(FixedOrder) :
              (/\ a < b
               /\ Field(loc.first, FixedOrder[a]) # <<>>
               /\ Field(loc.first, FixedOrder[b]) # <<>>) =>
                  /\ IndexFrom(resp.body[1], SectionLabel[FixedOrder[a]], 1) > 0
                  /\ IndexFrom(resp.body[1], SectionLabel[FixedOrder[a]], 1)
                        < IndexFrom(resp.body[1], SectionLabel[FixedOrder[b]], 1)

\* a payload that names the git status before the file, and the same fields the
\* other way round: both texts have the file section first
C14_Witness ==
    /\ pc = "done" /\ "first" \in DOMAIN loc
    /\ Len(loc.first) = 2
    /\ loc.first[1].key = "gitStatus" /\ loc.first[2].key = "filePath"
    /\ loc.second[1].key = "filePath"
    /\ resp.body[1] = FileLabel \o SrcFile \o GitStatusOpen \o GitM \o FenceClose

Extracted == pc = "done" /\ "bubble" \in DOMAIN loc

\* the fenced sections of the code blocks that have content, written out
FencedBlocks(codeBlocks) ==
    IF codeBlocks = <<>> THEN <<>>
    ELSE IF Len(codeBlocks) = 1
         THEN <<"\n", "\n", "BQ", "BQ", "BQ", "\n">> \o Hello \o <<"\n", "BQ", "BQ", "BQ">>
    ELSE <<"\n", "\n", "BQ", "BQ", "BQ", "t", "s", "\n">> \o SrcFile \o <<"\n", "BQ", "BQ", "BQ">>

\* the flattening of the rich texts tried, written out
Flattened(richText) ==
    IF richText.kind # "tree" THEN <<>>
    ELSE IF Len(richText.children) = 2
         THEN Hello \o <<"\n", "BQ", "BQ", "BQ", "\n">> \o SrcFile
                  \o <<"\n", "BQ", "BQ", "BQ", "\n">> \o World
    ELSE richText.children[1].text

\* C15: text extraction never throws for a decoded bubble object: without text and
\* without rich text it gives the empty string, and with rich text that does not
\* parse it gives the text built from the other fields.
C15_ExtractionNeverThrows ==
    Extracted =>
        /\ resp # Thrown
        /\ (/\ loc.bubble.textType = "undefined"
            /\ loc.bubble.richText.kind = "none"
            /\ loc.bubble.codeBlocks = <<>>) => resp.body = <<>>
        /\ (loc.bubble.textType = "string" /\ loc.bubble.richText.kind = "bad") =>
              resp.body = (IF loc.bubble.text = Hello THEN Hello ELSE <<>>)
                              \o FencedBlocks(loc.bubble.codeBlocks)

\* C19: the base text is the text field when it is not empty and not only
\* whitespace, else the depth-first flattening of the rich-text tree with code
\* nodes fenced; every code block that has content is then appended as a fenced
\* section, whichever branch gave the base text and also when the base text is empty.
C19_ExtractionPrecedence ==
    (Extracted /\ loc.bubble.textType # "number") =>
        resp.body = (IF loc.bubble.text = Hello THEN Hello
                     ELSE Flattened(loc.bubble.richText))
                        \o FencedBlocks(loc.bubble.codeBlocks)

\* a bubble whose text is only whitespace, whose rich text is a tree with a code
\* node, and which has a code block with content
C19_Witness ==
    /\ Extracted
    /\ loc.bubble.text = Blank
    /\ Len(loc.bubble.richText.children) = 2
    /\ Len(loc.bubble.codeBlocks) = 2
    /\ resp.status = 200
    /\ Len(resp.body) = Len(Hello) + Len(SrcFile) + Len(World) + 10
                            + Len(FencedBlocks(loc.bubble.codeBlocks))

\* a >= b as the language compares two timestamps: false when either is NaN
AtLeast(a, b) == a # NaN /\ b # NaN /\ a >= b

\* C16: the log listing (legacy chat tabs, legacy composers and the chats of the
\* global store) is sorted by timestamp descending: of every two adjacent entries
\* the earlier one's timestamp is greater than or equal to the later one's, for a
\* stored timestamp that is missing or unparseable too.
C16_LogsSortedDescending ==
    (req.handler = "logs" /\ pc = "done" /\ resp.status = 200) =>
        \A j \in 1..(Len(resp.body) - 1) :
            AtLeast(resp.body[j].timestamp, resp.body[j + 1].timestamp)

\* C17: the timestamp of every returned conversation is its last-updated time, else
\* its created time, else the current time, and so always a number, for a record
\* that carries neither time too.
C17_TimestampFallback ==
    TabsReturned =>
        \A i \in 1..Len(resp.body) :
            LET row == RowOf(resp.body[i].id)
            IN  /\ resp.body[i].timestamp # NaN
                /\ resp.body[i].timestamp
                       = (IF row.lastUpdatedAt # 0 THEN row.lastUpdatedAt
                          ELSE IF row.createdAt # 0 THEN row.createdAt
                          ELSE now)

\* the stored diffs of a conversation that parse and whose formatted text is not empty
DiffsKept(composerId) ==
    LET Mine(row) == row.chat = composerId /\ row.ok /\ formatToolAction(row.action) # <<>>
    IN  SelectSeq(globalDb.diffRows, Mine)

----------------------------------------------------------------------------
(* C18 *)

\* what the projects handler answers over the storage when nothing else runs
AloneProjects ==
    IF ~rootOk THEN Failure
    ELSE LET workspaceEntries == workspaceEntriesOf(dirs)
         IN  IF \E i \in 1..Len(workspaceEntries) : ~workspaceEntries[i].hasDb
             THEN Failure
             ELSE [ status |-> 200,
                    body |-> SortProjects([i \in 1..Len(workspaceEntries) |->
                                 ProjectOf(workspaceEntries[i],
                                           ProjectsConversationMap(workspaceEntries))]) ]

\* what the tabs handler answers for a workspace id when nothing else runs
AloneTabs(id) ==
    IF ~rootOk THEN Failure
    ELSE IF globalDb.state = "missing" THEN [status |-> 404, body |-> <<>>]
    ELSE IF globalDb.state = "notable" THEN Failure
    ELSE [status |-> 200, body |-> tabsOf(id, workspaceEntriesOf(dirs), now, now)]

\* what the logs handler answers when nothing else runs
AloneLogs ==
    LET Read(d) == dirs[d].isDirectory /\ dirs[d].hasDb
    IN  IF ~rootOk THEN LogsFailure
        ELSE IF \E d \in 1..Len(dirs) :
                   Read(d) /\ (dirs[d].chatdata.kind = "bad" \/ dirs[d].composerData.kind = "bad")
        THEN LogsFailure
        ELSE [ status |-> 200,
               body |-> SortLogs(globalLogs(now) \o
                            Concat([d \in 1..Len(dirs) |->
                                IF Read(d)
                                THEN chatLogsOf(dirs[d]) \o composerLogsOf(dirs[d], now)
                                ELSE <<>>])) ]

AloneResponse(request) ==
    IF request.handler = "projects" THEN AloneProjects
    ELSE IF request.handler = "tabs" THEN AloneTabs(request.id)
    ELSE AloneLogs

\* every finished query carries the answer it gives when run alone
AnswersAsAlone == \A p \in Queries : pc[p] = "done" => resp[p] = AloneResponse(req[p])

\* a step leaves the position, request, handles, locals and answer of all queries
\* but one as they were
OneQueryMoves ==
    \A p, q \in Queries :
        p # q => \/ <<pc[p], req[p], open[p], loc[p], resp[p]>>' = <<pc[p], req[p], open[p], loc[p], resp[p]>>
                 \/ <<pc[q], req[q], open[q], loc[q], resp[q]>>' = <<pc[q], req[q], open[q], loc[q], resp[q]>>

\* C18: two queries interleaved at their suspension points over unchanged storage
\* each return what they return when run alone, a step of one query touches no
\* handle, index or accumulator of the other, and a query started after another
\* has finished starts from fresh locals and answers as if it were the first.
C18_QueriesIndependent == []AnswersAsAlone /\ [][OneQueryMoves]_vars

\* both queries are inside the loop of the logs handler at once: one holds the
\* store of the first workspace open, the other has gathered logs and holds the
\* store of the second
C18_Witness ==
    /\ pc[1] = "store" /\ req[1].handler = "logs" /\ loc[1].i = 1
    /\ pc[2] = "store" /\ req[2].handler = "logs" /\ loc[2].i = 2
    /\ Len(loc[2].logs) > 0
    /\ W1 \in open[1] /\ W2 \in open[2]

----------------------------------------------------------------------------
(* C21 *)

GitSectionText == <<"\n", "\n", "*", "*", "G", "i", "t", " ", "S", "t", "a", "t", "u", "s", ":",
    "*", "*", "\n", "BQ", "BQ", "BQ", "\n", "M", " ", "a", "\n", "BQ", "BQ", "BQ">>
TerminalSectionText == <<"\n", "\n", "*", "*", "T", "e", "r", "m", "i", "n", "a", "l", " ", "F",
    "i", "l", "e", "s", ":", "*", "*", "\n", "-", " ", "t", ".", "s", "h">>
FoldersSectionText == <<"\n", "\n", "*", "*", "A", "t", "t", "a", "c", "h", "e", "d", " ", "F",
    "o", "l", "d", "e", "r", "s", ":", "*", "*", "\n", "\n", "*", "*", "F", "o", "l", "d", "e",
    "r", ":", "*", "*", " ", "s", "r", "c", "\n", "-", " ", "a", ".", "t", "s", " ", "(", "f",
    "i", "l", "e", ")">>
EmptyFoldersSectionText == <<"\n", "\n", "*", "*", "A", "t", "t", "a", "c", "h", "e", "d", " ",
    "F", "o", "l", "d", "e", "r", "s", ":", "*", "*">>
RulesSectionText == <<"\n", "\n", "*", "*", "C", "u", "r", "s", "o", "r", " ", "R", "u", "l",
    "e", "s", ":", "*", "*", "\n", "-", " ", "r", "1">>
RelatedSectionText == <<"\n", "\n", "*", "*", "R", "e", "l", "a", "t", "e", "d", " ", "C", "o",
    "n", "v", "e", "r", "s", "a", "t", "i", "o", "n", "s", ":", "*", "*", "\n", "-", " ", "c",
    "9">>

\* the text the sections of one context come to, section by section as written out
\* above, for the values the contexts of this model hold
SectionsWrittenOut(context) ==
    (IF context.gitStatusRaw = GitM THEN GitSectionText ELSE <<>>)
        \o (IF context.terminalFiles = <<TermPath>> THEN TerminalSectionText ELSE <<>>)
        \o (IF context.attachedFoldersListDirResults = <<>> THEN <<>>
            ELSE IF context.attachedFoldersListDirResults[1].files = <<>>
                 THEN EmptyFoldersSectionText
            ELSE FoldersSectionText)
        \o (IF context.cursorRules # <<>> THEN RulesSectionText ELSE <<>>)
        \o (IF context.summarizedComposers # <<>> THEN RelatedSectionText ELSE <<>>)

\* the context rows of a conversation that name the bubble, in row order
ContextsFor(composerId, bubbleId) ==
    LET Mine(row) == row.chat = composerId /\ row.bubbleId = bubbleId
    IN  SelectSeq(globalDb.contextRows, Mine)

\* the sections of all of them, one context after the other
MergedSections(composerId, bubbleId) ==
    LET contexts == ContextsFor(composerId, bubbleId)
    IN  Concat([k \in 1..Len(contexts) |-> SectionsWrittenOut(contexts[k])])

\* C21: the text of a turn built from a header is the bubble's text followed by the
\* sections of every context of the same conversation that names the turn's bubble,
\* context after context in stored order and within a context in the order git
\* status, terminal files, attached folders with their files, rules, related
\* conversations; a context that names another bubble, or belongs to another
\* conversation, adds nothing.
C21_AllContextsMerged ==
    TabsReturned =>
        \A i \in 1..Len(resp.body) :
            resp.body[i].id = ComposerA =>
                /\ Len(resp.body[i].bubbles) = 2
                /\ resp.body[i].bubbles[1].text = Hello \o MergedSections(ComposerA, "b1")
                /\ resp.body[i].bubbles[2].text = World \o MergedSections(ComposerA, "b2")

\* two contexts name the first bubble, the first with a git status and rules, the
\* second with all five sections; the turn carries the sections of both and the
\* other turn carries none
C21_Witness ==
    /\ TabsReturned
    /\ Len(resp.body) = 1
    /\ Len(ContextsFor(ComposerA, "b1")) = 2
    /\ resp.body[1].bubbles[1].text =
           Hello \o GitSectionText \o RulesSectionText
                 \o GitSectionText \o TerminalSectionText \o FoldersSectionText
                 \o RulesSectionText \o RelatedSectionText
    /\ resp.body[1].bubbles[2].text = World

----------------------------------------------------------------------------
(* C22 *)

\* the turn was appended for a diff
IsDiffTurn(bubble) == StartsWith(bubble.text, ToolActionLabel)

\* the place of a text among the turns built from the headers of a row, 0 if none
HeaderPlace(row, text) ==
    LET turns == HeaderTurnsOfRow(row)
        places == {k \in 1..Len(turns) : turns[k].text = text}
    IN  IF places = {} THEN 0 ELSE CHOOSE k \in places : \A l \in places : k <= l

\* C22: the sort of the turns is stable: of two returned turns with the same
\* timestamp, two built from headers stand in the order of their headers, and one
\* built from a header stands before one appended for a diff.
C22_StableSort ==
    TabsReturned =>
        \A i \in 1..Len(resp.body) :
            LET bubbles == resp.body[i].bubbles
                row == RowOf(resp.body[i].id)
            IN  \A p, q \in 1..Len(bubbles) :
                    (p < q /\ bubbles[p].timestamp = bubbles[q].timestamp) =>
                        /\ ~(IsDiffTurn(bubbles[p]) /\ ~IsDiffTurn(bubbles[q]))
                        /\ (~IsDiffTurn(bubbles[p]) /\ ~IsDiffTurn(bubbles[q])) =>
                               HeaderPlace(row, bubbles[p].text) < HeaderPlace(row, bubbles[q].text)

\* the header of bubble b2 is stored before that of b1, both bubbles and a diff turn
\* have the same timestamp: b2's turn, b1's turn, then the diff turn
C22_Witness ==
    /\ TabsReturned
    /\ \E i \in 1..Len(resp.body) :
          LET bubbles == resp.body[i].bubbles
          IN  /\ RowOf(resp.body[i].id).fullConversationHeadersOnly
                     = <<Header("b2", 2), Header("b1", 1)>>
              /\ Len(bubbles) = 3
              /\ bubbles[1].text = World
              /\ ~IsDiffTurn(bubbles[2])
              /\ IsDiffTurn(bubbles[3])
              /\ bubbles[1].timestamp = bubbles[2].timestamp
              /\ bubbles[2].timestamp = bubbles[3].timestamp

----------------------------------------------------------------------------
(* C23 *)

\* the rule of normalization: a leading file:// scheme is stripped, then the
\* home-directory prefix
NormalizedByRule(path) == RemoveLeading(RemoveLeading(path, FileScheme), HomePrefix)

\* the first workspace entry whose folder, normalized by the rule, is a prefix of
\* the path normalized by the rule
ProjectByRule(path) ==
    LET Holds(entry) ==
            /\ entry.jsonOk /\ entry.folder # <<>>
            /\ StartsWith(NormalizedByRule(path), NormalizedByRule(entry.folder))
        holding == SelectSeq(workspaceEntriesOf(dirs), Holds)
    IN  IF holding = <<>> THEN NoProject ELSE holding[1].name

\* the candidate paths of a conversation in the order of the file tiers: newly
\* created files, code-block paths, the file references of the headers' bubbles
CandidatePaths(row) ==
    LET bubbleMap == bubbleMapFrom(globalDb.bubbleRows, EmptyMap)
        headers == row.fullConversationHeadersOnly
    IN  row.newlyCreatedFiles \o row.codeBlockData
            \o Concat([h \in 1..Len(headers) |->
                   IF headers[h].bubbleId \in DOMAIN bubbleMap
                   THEN BubbleFileReferences(bubbleMap[headers[h].bubbleId])
                   ELSE <<>>])

\* C23: a conversation without layout hints is listed under the project of its
\* first candidate path that falls in a project, where path and folder are both
\* normalized by the one rule (scheme stripped, then home prefix) in every file
\* tier; so a newly created file or a bubble's file given with a file:// scheme
\* counts for the project whose folder contains it, as a code-block path does.
C23_OneNormalization ==
    ProjectsScanned =>
        \A k \in ObjectRows :
            LET row == globalDb.composerRows[k]
                paths == CandidatePaths(row)
                project == FirstFound([n \in 1..Len(paths) |-> ProjectByRule(paths[n])])
            IN  project # NoProject => ListedUnder(row.id, project)

----------------------------------------------------------------------------
(* C24 *)

\* C24: a title derived from the first turn carries the ellipsis only when the
\* line was cut: a first non-empty line of at most 100 characters, one of exactly
\* 100 characters too, is the title as it stands.
C24_EllipsisOnlyWhenCut ==
    TabsReturned =>
        \A i \in 1..Len(resp.body) :
            LET row == RowOf(resp.body[i].id)
            IN  (row.name = <<>> /\ ChosenLine(row) # <<>> /\ Len(ChosenLine(row)) <= TitleMax) =>
                    resp.body[i].title = ChosenLine(row)

----------------------------------------------------------------------------
(* C25 *)

\* the bubble rows stored under the key of a conversation
BubbleRowsOf(composerId) ==
    {globalDb.bubbleRows[k] : k \in {n \in 1..Len(globalDb.bubbleRows) :
                                        globalDb.bubbleRows[n].chat = composerId}}

\* C25: every turn of a returned conversation has the text and, when the bubble has
\* one, the timestamp of a bubble row stored under that conversation's key: a row of
\* another conversation with the same bubble id supplies neither, in whatever order
\* the rows are scanned.
C25_TurnsFromOwnBubbles ==
    TabsReturned =>
        \A i \in 1..Len(resp.body) : \A j \in 1..Len(resp.body[i].bubbles) :
            \E bubble \in BubbleRowsOf(resp.body[i].id) :
                /\ resp.body[i].bubbles[j].text = bubble.text
                /\ bubble.timestamp # 0 => resp.body[i].bubbles[j].timestamp = bubble.timestamp

----------------------------------------------------------------------------
(* C26 *)

\* the conversations the project listing attributes to a project over this storage
AttributedTo(projectId) ==
    MapGet(ProjectsConversationMap(workspaceEntriesOf(dirs)), projectId, <<>>)

\* the conversation counts the project listing reports for a project: none when the
\* listing fails or does not list the project
ReportedCounts(projectId) ==
    IF AloneProjects.status # 200 THEN {}
    ELSE {AloneProjects.body[k].conversationCount :
              k \in {n \in 1..Len(AloneProjects.body) : AloneProjects.body[n].id = projectId}}

\* C26: over the same storage the conversation listing of a project returns no more
\* conversations than the project listing counts for the project, and every
\* conversation it returns is one the project listing attributed to that project.
C26_ListingWithinCount ==
    TabsReturned =>
        /\ \A count \in ReportedCounts(req.id) : Len(resp.body) <= count
        /\ \A i \in 1..Len(resp.body) :
              \E k \in 1..Len(AttributedTo(req.id)) : AttributedTo(req.id)[k] = resp.body[i].id

\* the listing of W1 returns two conversations and the project listing counts two
C26_Witness ==
    /\ TabsReturned
    /\ req.id = W1
    /\ Len(resp.body) = 2
    /\ ReportedCounts(W1) = {2}

----------------------------------------------------------------------------
(* C27 *)

\* C27: a returned conversation has at least one turn built from a header, with
\* text that is not blank; a conversation whose headers yield no turn is not
\* returned, diffs stored under its id or not.
C27_NoHeaderTurnNoConversation ==
    TabsReturned =>
        /\ \A i \in 1..Len(resp.body) :
              \E j \in 1..Len(resp.body[i].bubbles) :
                  /\ ~IsDiffTurn(resp.body[i].bubbles[j])
                  /\ Trim(resp.body[i].bubbles[j].text) # <<>>
        /\ \A k \in ObjectRows :
              HeaderTurnsOfRow(globalDb.composerRows[k]) = <<>> =>
                  \A i \in 1..Len(resp.body) : resp.body[i].id # globalDb.composerRows[k].id

\* conversation A of project W1 has a header whose bubble is blank and a diff that
\* names a file: the listing of W1 comes back without it
C27_Witness ==
    /\ TabsReturned
    /\ req.id = W1
    /\ projectOfRow(RowOf(ComposerA), workspaceEntriesOf(dirs)) = W1
    /\ HeaderTurnsOfRow(RowOf(ComposerA)) = <<>>
    /\ DiffsKept(ComposerA) # <<>>
    /\ resp.body = <<>>

----------------------------------------------------------------------------
(* C28 *)

\* folder is a plain string prefix of path
IsPrefix(folder, path) ==
    Len(folder) <= Len(path) /\ \A n \in 1..Len(folder) : path[n] = folder[n]

\* the places, in enumeration order, of the workspace entries whose normalized
\* folder is a prefix of the normalized path
PrefixPlaces(path) ==
    LET entries == workspaceEntriesOf(dirs)
    IN  {e \in 1..Len(entries) :
            /\ entries[e].jsonOk /\ entries[e].folder # <<>>
            /\ IsPrefix(normalizedWorkspacePath(entries[e].folder), normalizedFilePath(path))}

\* the conversations whose one piece of evidence is one newly created file
SingleFileRows ==
    {k \in ObjectRows :
        LET row == globalDb.composerRows[k]
        IN  /\ Len(row.newlyCreatedFiles) = 1
            /\ row.codeBlockData = <<>>
            /\ Len(CandidatePaths(row)) = 1
            /\ MapGet(projectLayoutsMapFrom(globalDb.contextRows, EmptyMap), row.id, <<>>) = <<>>}

\* C28: attribution by a file path gives the first workspace entry, in enumeration
\* order, whose normalized folder is a plain string prefix of the normalized path,
\* and a project only when there is such an entry; when several folders are
\* prefixes the earliest entry is taken, not the one with the longest folder.
C28_FirstPrefixWins ==
    ProjectsScanned =>
        \A k \in SingleFileRows :
            LET row == globalDb.composerRows[k]
                places == PrefixPlaces(row.newlyCreatedFiles[1])
                entries == workspaceEntriesOf(dirs)
            IN  /\ places = {} => \A p \in DOMAIN loc.conversationMap : ~ListedUnder(row.id, p)
                /\ \A e \in places :
                      (\A f \in places : e <= f) =>
                          /\ ListedUnder(row.id, entries[e].name)
                          /\ \A p \in DOMAIN loc.conversationMap :
                                p # entries[e].name => ~ListedUnder(row.id, p)

\* W1 with folder /w/p is enumerated before W2 with folder /w/p2; the file /w/p2/b
\* lies in W2's folder and the conversation is listed under W1
C28_Witness ==
    /\ ProjectsScanned
    /\ dirs[1].name = W1 /\ dirs[1].folder = FolderWP
    /\ \E k \in SingleFileRows :
          /\ globalDb.composerRows[k].newlyCreatedFiles = <<PathInP2>>
          /\ PrefixPlaces(PathInP2) = {1, 2}
          /\ ListedUnder(globalDb.composerRows[k].id, W1)

----------------------------------------------------------------------------
(* C29 *)

RECURSIVE SumOfCounts(_)
\* the sum of the conversation counts of the listed projects
SumOfCounts(projects) ==
    IF projects = <<>> THEN 0
    ELSE Head(projects).conversationCount + SumOfCounts(Tail(projects))

\* the ids of the listed projects
ListedProjects == {resp.body[i].id : i \in 1..Len(resp.body)}

\* the records for which attribution returned a listed project
AttributedRows == {k \in ObjectRows : FirstFound(TiersOfRow(globalDb.composerRows[k])) \in ListedProjects}

\* how often a conversation stands in the conversation map, over all projects
TimesCounted(composerId) ==
    LET Places(p) == {n \in 1..Len(loc.conversationMap[p]) : loc.conversationMap[p][n] = composerId}
        projects == DOMAIN loc.conversationMap
    IN  Cardinality({<<p, n>> \in UNION {{p} \X Places(p) : p \in projects} : TRUE})

\* C29: in the project listing a conversation record is counted for one project at
\* most; the counts of the listed projects sum to the number of records for which
\* attribution returned a listed project, which is at most the number of records.
C29_CountedOnce ==
    ProjectsReturned =>
        /\ \A k \in 1..Len(globalDb.composerRows) : TimesCounted(globalDb.composerRows[k].id) <= 1
        /\ SumOfCounts(resp.body) = Cardinality(AttributedRows)
        /\ SumOfCounts(resp.body) <= Len(globalDb.composerRows)

\* two records, the first with a layout hint of W1 and a file of W2, the second
\* without evidence: the counts are 1 for W1 and 0 for W2
C29_Witness ==
    /\ ProjectsReturned
    /\ Len(globalDb.composerRows) = 2
    /\ \E k \in ObjectRows :
          /\ TiersOfRow(globalDb.composerRows[k])[1] = W1
          /\ TiersOfRow(globalDb.composerRows[k])[2] = W2
    /\ SumOfCounts(resp.body) = 1
    /\ \E i \in 1..Len(resp.body) : resp.body[i].id = W2 /\ resp.body[i].conversationCount = 0

----------------------------------------------------------------------------
(* C30 *)

\* C30: the title of an unnamed conversation comes from the turn of the first
\* header that yields one, in stored header order, as the turns stand before diff
\* turns are appended and before the sort: it begins with the first non-blank line
\* of that turn (cut at 100 characters), it is never taken from a diff turn, and it
\* is not tied to the turn that stands first in the returned sequence.
C30_TitleBeforeSort ==
    TabsReturned =>
        \A i \in 1..Len(resp.body) :
            LET row == RowOf(resp.body[i].id)
                title == resp.body[i].title
            IN  row.name = <<>> =>
                    /\ ~StartsWith(title, ToolActionLabel)
                    /\ ChosenLine(row) # <<>> =>
                           /\ StartsWith(title, Substring(ChosenLine(row), TitleMax))
                           /\ Len(title) <= TitleMax + Len(Ellipsis)
                    /\ ChosenLine(row) = <<>> =>
                           title = ConversationPrefix \o Substring(row.id, IdMax)

\* an unnamed conversation with headers b1, b2 whose bubble b2 is the older one: the
\* returned sequence begins with b2's turn and the title is b1's first line
C30_Witness ==
    /\ TabsReturned
    /\ \E i \in 1..Len(resp.body) :
          LET row == RowOf(resp.body[i].id)
          IN  /\ row.name = <<>>
              /\ row.fullConversationHeadersOnly = <<Header("b1", 1), Header("b2", 2)>>
              /\ resp.body[i].bubbles[1].text = World
              /\ StartsWith(HeaderTurnsOfRow(row)[1].text, FixTheBug \o Newline)
              /\ resp.body[i].title = FixTheBug
              /\ \E j \in 1..Len(resp.body[i].bubbles) : IsDiffTurn(resp.body[i].bubbles[j])

====
